---- MODULE Spec2Model ----
(***************************************************************************)
(* Verification model of whisper-query-parser:                             *)
(*   - audio_processing/optimizer.py : split_audio, optimize_whisper_config *)
(*   - utils/query_generation.py     : QueryGenerator.generate_query        *)
(* Texts are sequences of one-character strings; Python values that come    *)
(* out of json.loads are tagged records (see JSON values below).            *)
(***************************************************************************)
EXTENDS Integers, Sequences, FiniteSets, TLC

\* ------------------------------------------------------------------ bounds
\* longest sample array given to split_audio
MaxAudioLen == 5
\* largest sample_rate and largest segment_length_sec given to split_audio
MaxRate == 2
MaxSegSec == 2
\* a file size is a whole number of ticks; TicksPerMB ticks make one MB
TicksPerMB == 2
\* file sizes are drawn within SizeMargin ticks of each policy threshold
SizeMargin == 2
\* largest file size, in MB
MaxFileMB == 120
\* number of optimize_whisper_config calls kept in the call log
MaxCalls == 3
\* number of building blocks in a reply of the generative model
MaxReplyTokens == 3
\* sample rate transcribe_audio hands to split_audio, scaled down: the code
\* passes 16000
PipelineSampleRate == 1
\* segment length in seconds transcribe_audio hands to split_audio, scaled
\* down: the code passes 30
PipelineSegmentSec == 2
MaxRequests == 2

VARIABLES
    split_pc,      \* "idle" | "done" : position of the split_audio caller
    split_in,      \* arguments of the last split_audio call
    segments,      \* list returned by the last split_audio call
    cfg_log,       \* optimize_whisper_config calls so far: <<file size, config>>
    gq_pc,         \* "idle" | "invoking" | "returned" : position in generate_query
    gq_in,         \* arguments of the generate_query call
    content,       \* content list handed to model.generate_content
    raw_reply,     \* response.text as the model gave it
    model_error,   \* str(e) of the exception the model raised
    parsed_text,   \* the text handed to json.loads
    gq_result,     \* value returned by generate_query
    gq_outcome,    \* "none" | "success" | "parse-error" | "invocation-error"
    model_calls,   \* calls of model.generate_content in this generate_query
    tr_pc,         \* "idle" | "first" | "retry" | "done" : position in transcribe
    tr_in,         \* arguments of the transcribe call
    tr_calls,      \* options of the self.model.transcribe calls made so far
    tr_paths,      \* audio_path of the self.model.transcribe calls made so far
    tr_errors,     \* exceptions the model raised, in order
    tr_reply,      \* dictionary returned by the model call that succeeded
    tr_outcome,    \* "none" | "returned" | "raised"
    tr_result,     \* TranscriptionResult returned by transcribe
    tr_raised,     \* exception that left transcribe
    pl_pc,         \* "idle" | "direct" | "segment" | "done" : position in transcribe_audio
    pl_in,         \* the file handed to transcribe_audio: its size, its samples
    pl_config,     \* whisper_config
    pl_segments,   \* segments, as split_audio returned them
    pl_calls,      \* the model.transcribe calls made so far
    pl_texts,      \* result["text"] of the calls that returned
    pl_text,       \* full_result["text"]
    pl_outcome,    \* "none" | "returned" | "raised"
    pr_pc,         \* "idle" | "transcribing" | "generating" | "done" : position in the endpoint
    pr_in,         \* the request: endpoint, file name given, file size, image given,
                   \* language, transcription form field
    pr_calls,      \* the transcriber.transcribe calls made by the request
    pr_transcription, \* transcription, once the transcriber returned
    pr_gen,        \* "none" | "success" | "parse-error" | "invocation-error"
    pr_failed,     \* "none" | "unavailable" | "no-file" | "save" | "load" |
                   \* "transcription" : what raised
    pr_response,   \* the response the caller receives
    query_generator, \* "unset" | "generator" | "none" : the module-level generator
    pr_events,     \* what the request did so far: saves, add_task, calls
    pr_gen_calls,  \* the generator.generate_query calls made by the request
    tmp_files,     \* the temporary files of the request that exist
    pr_cleaned,    \* the cleanup tasks that ran, each with its outcome
    pr_health,     \* the body of /health
    transcriber,   \* model_name of the module-level transcriber of app.py
    ui_pc,         \* per handler: "idle" | "check" | "install" | "transcribe" | "done"
    ui_model,      \* per handler: the model_name argument of its request
    ui_used,       \* per handler: model_name of the transcriber that transcribed
    ui_failure,    \* per handler: what failed: "none" | "no-input" | "rejected" |
                   \* "load-failed" | "audio-failed" | "transcribe-failed"
    ui_result,     \* per handler: "none" | "text" | "error-text" | "raised"
    ui_loads,      \* per handler: names handed to whisper.load_model by its request
    ui_built,      \* per handler: model_name of the transcriber its request built
    tf_pc,         \* per request: "idle" | "write" | "read" | "done"
    tf_kind,       \* per request: "audio" (transcribe_recorded_audio) | "image"
                   \* (generate_query_from_transcript)
    tf_own,        \* per request: the recording or picture that came with it
    tf_files,      \* per kind: what recorded_audio.wav and uploaded_image.jpg hold
    tf_read        \* per request: what its transcriber or generator call read

gqVars == <<gq_pc, gq_in, content, raw_reply, model_error, parsed_text, gq_result, gq_outcome, model_calls>>
trVars == <<tr_pc, tr_in, tr_calls, tr_paths, tr_errors, tr_reply, tr_outcome, tr_result, tr_raised>>
plVars == <<pl_pc, pl_in, pl_config, pl_segments, pl_calls, pl_texts, pl_text, pl_outcome>>
prVars == <<pr_pc, pr_in, pr_calls, pr_transcription, pr_gen, pr_failed, pr_response,
            query_generator, pr_events, pr_gen_calls, tmp_files, pr_cleaned, pr_health>>
\* the variables of the components that come after generate_query
uiVars == <<transcriber, ui_pc, ui_model, ui_used, ui_failure, ui_result, ui_loads, ui_built>>
tfVars == <<tf_pc, tf_kind, tf_own, tf_files, tf_read>>
laterVars == <<trVars, plVars, prVars, uiVars, tfVars>>
vars == <<split_pc, split_in, segments, cfg_log, gqVars, laterVars>>
\* what a step of transcribe leaves alone
trRest == <<split_pc, split_in, segments, cfg_log, gqVars, plVars, prVars, uiVars, tfVars>>
\* what a step of transcribe_audio leaves alone
plRest == <<split_pc, split_in, segments, cfg_log, gqVars, trVars, prVars, uiVars, tfVars>>
\* what a step of /process leaves alone
prRest == <<split_pc, split_in, segments, cfg_log, gqVars, trVars, plVars, uiVars, tfVars>>
\* what a step of a handler of the UI leaves alone
uiRest == <<split_pc, split_in, segments, cfg_log, gqVars, trVars, plVars, prVars, tfVars>>
\* what a step on the temporary files of the UI leaves alone
tfRest == <<split_pc, split_in, segments, cfg_log, gqVars, trVars, plVars, prVars, uiVars>>

Min(a, b) == IF a <= b THEN a ELSE b

\* ------------------------------------------------------------ split_audio
\* Python slice a[start:end] for 0 <= start, 0 <= end (end clamped to len(a))
Slice(a, start, end) == SubSeq(a, start + 1, Min(end, Len(a)))

Samples == {0, 1}
AudioArrays == UNION {[1..n -> Samples] : n \in 0..MaxAudioLen}

\* faulty variant: the remainder is never appended
split_audio_no_tail(audio_array, sample_rate, segment_length_sec) ==
    LET segment_length == segment_length_sec * sample_rate
        num_segments == Len(audio_array) \div segment_length
    IN  [i \in 1..num_segments |->
            Slice(audio_array, (i - 1) * segment_length, i * segment_length)]

\* faulty variant: the remainder is appended even when it is empty
split_audio_always_tail(audio_array, sample_rate, segment_length_sec) ==
    LET segment_length == segment_length_sec * sample_rate
        num_segments == Len(audio_array) \div segment_length
        full == [i \in 1..num_segments |->
                    Slice(audio_array, (i - 1) * segment_length, i * segment_length)]
    IN  Append(full, Slice(audio_array, num_segments * segment_length, Len(audio_array)))

split_audio(audio_array, sample_rate, segment_length_sec) ==
    LET segment_length == segment_length_sec * sample_rate
        num_segments == Len(audio_array) \div segment_length
        \* for i in range(num_segments): segments.append(audio_array[start:end])
        full == [i \in 1..num_segments |->
                    Slice(audio_array, (i - 1) * segment_length, i * segment_length)]
    IN  IF Len(audio_array) % segment_length > 0
        THEN Append(full, Slice(audio_array, num_segments * segment_length, Len(audio_array)))
        ELSE full

NoSplitIn == [audio_array |-> <<>>, sample_rate |-> 1, segment_length_sec |-> 1]

SplitCall ==
    /\ split_pc = "idle"
    /\ \E a \in AudioArrays, r \in 1..MaxRate, s \in 1..MaxSegSec :
          /\ split_in' = [audio_array |-> a, sample_rate |-> r, segment_length_sec |-> s]
          /\ segments' = split_audio(a, r, s)
    /\ split_pc' = "done"
    /\ UNCHANGED <<cfg_log, gqVars>>
    /\ UNCHANGED laterVars

SplitReset ==
    /\ split_pc = "done"
    /\ split_pc' = "idle"
    /\ split_in' = NoSplitIn
    /\ segments' = <<>>
    /\ UNCHANGED <<cfg_log, gqVars>>
    /\ UNCHANGED laterVars

\* ------------------------------------------------ optimize_whisper_config
LargeFileMB == 100
MediumFileMB == 50
SegmentThresholdMB == 30

Near(mb) == (mb * TicksPerMB - SizeMargin)..(mb * TicksPerMB + SizeMargin)
FileSizes == {0, MaxFileMB * TicksPerMB} \cup Near(SegmentThresholdMB)
                \cup Near(MediumFileMB) \cup Near(LargeFileMB)

\* faulty variant: the thresholds are tested with >= instead of >
optimize_whisper_config_ge(file_size) ==
    IF file_size >= LargeFileMB * TicksPerMB
    THEN [batch_size |-> 8, compute_type |-> "int8", beam_size |-> 3]
    ELSE IF file_size >= MediumFileMB * TicksPerMB
    THEN [batch_size |-> 12, compute_type |-> "float16", beam_size |-> 4]
    ELSE [batch_size |-> 16, compute_type |-> "float16", beam_size |-> 5]

\* faulty variant: the two tests are in the wrong order (the > 50 test shadows > 100),
\* and the middle tier got the reduced precision
optimize_whisper_config_swapped(file_size) ==
    IF file_size > LargeFileMB * TicksPerMB
    THEN [batch_size |-> 12, compute_type |-> "float16", beam_size |-> 4]
    ELSE IF file_size > MediumFileMB * TicksPerMB
    THEN [batch_size |-> 8, compute_type |-> "int8", beam_size |-> 3]
    ELSE [batch_size |-> 16, compute_type |-> "float16", beam_size |-> 5]

\* file_size is file_size_mb in ticks
optimize_whisper_config(file_size) ==
    LET config == [batch_size |-> 16, compute_type |-> "float16", beam_size |-> 5]
    IN  IF file_size > LargeFileMB * TicksPerMB
        THEN [config EXCEPT !.batch_size = 8, !.compute_type = "int8", !.beam_size = 3]
        ELSE IF file_size > MediumFileMB * TicksPerMB
        THEN [config EXCEPT !.batch_size = 12, !.compute_type = "float16", !.beam_size = 4]
        ELSE config

ConfigCall ==
    /\ Len(cfg_log) < MaxCalls
    /\ \E f \in FileSizes :
          cfg_log' = Append(cfg_log, [file_size |-> f, config |-> optimize_whisper_config(f)])
    /\ UNCHANGED <<split_pc, split_in, segments, gqVars>>
    /\ UNCHANGED laterVars

ConfigReset ==
    /\ Len(cfg_log) = MaxCalls
    /\ cfg_log' = <<>>
    /\ UNCHANGED <<split_pc, split_in, segments, gqVars>>
    /\ UNCHANGED laterVars

\* ------------------------------------------------------------------ texts
\* A text (Python str) is a sequence of one-character strings.
\* s[:n]
Take(s, n) == SubSeq(s, 1, Min(n, Len(s)))
\* s[n:]
Drop(s, n) == SubSeq(s, n + 1, Len(s))

\* whether sep occurs in s at position i (1-based)
MatchAt(s, i, sep) ==
    /\ i >= 1
    /\ i + Len(sep) - 1 <= Len(s)
    /\ SubSeq(s, i, i + Len(sep) - 1) = sep

\* position of the leftmost occurrence of sep in s at or after from; 0 if none
FindFrom(s, sep, from) ==
    LET hits == {i \in from..(Len(s) - Len(sep) + 1) : MatchAt(s, i, sep)}
    IN  IF hits = {} THEN 0 ELSE CHOOSE i \in hits : \A j \in hits : i <= j

\* Python: sep in s
Contains(s, sep) == FindFrom(s, sep, 1) # 0

\* Python: s.split(sep), the list of the parts around the leftmost
\* non-overlapping occurrences of sep
RECURSIVE PySplit(_, _)
PySplit(s, sep) ==
    LET i == FindFrom(s, sep, 1)
    IN  IF i = 0 THEN <<s>>
        ELSE <<SubSeq(s, 1, i - 1)>> \o PySplit(Drop(s, i + Len(sep) - 1), sep)

\* characters str.strip() removes (those a text of the model can hold)
PyWhitespace == {" ", "\n", "\t", "\r", "\f"}

RECURSIVE LStrip(_)
LStrip(s) == IF s # <<>> /\ Head(s) \in PyWhitespace THEN LStrip(Tail(s)) ELSE s
RECURSIVE RStrip(_)
RStrip(s) ==
    IF s # <<>> /\ s[Len(s)] \in PyWhitespace THEN RStrip(SubSeq(s, 1, Len(s) - 1)) ELSE s
\* Python: s.strip()
PyStrip(s) == RStrip(LStrip(s))

\* the character ` (a string of the language cannot hold it, so it is named)
Backtick == "GRAVE"
\* the separator "```json" of generate_query
FenceJson == <<Backtick, Backtick, Backtick, "j", "s", "o", "n">>
\* the separator "```" of generate_query
Fence == <<Backtick, Backtick, Backtick>>
\* dictionary keys of the payloads
KeyError ==
    <<"e", "r", "r", "o", "r">>
KeyTranscript ==
    <<"t", "r", "a", "n", "s", "c", "r", "i", "p", "t">>
KeyRawResponse ==
    <<"r", "a", "w", "_", "r", "e", "s", "p", "o", "n", "s", "e">>
KeyItems ==
    <<"i", "t", "e", "m", "s">>
\* error messages of generate_query
MsgParse ==
    <<"C", "o", "u", "l", "d", " ", "n", "o", "t", " ", "p", "a", "r", "s",
    "e", " ", "r", "e", "s", "p", "o", "n", "s", "e", " ", "a", "s", " ",
    "J", "S", "O", "N">>
MsgFailed ==
    <<"F", "a", "i", "l", "e", "d", " ", "t", "o", " ", "g", "e", "n", "e",
    "r", "a", "t", "e", " ", "q", "u", "e", "r", "y", ":", " ">>

\* ------------------------------------------------------------ JSON values
\* A Python value produced by json.loads, or a payload dictionary built by
\* generate_query. Every value is a record of the same five fields; a dict
\* keeps its keys in insertion order, keys[i] mapping to elems[i].
JNum(n) == [kind |-> "number", num |-> n, str |-> <<>>, keys |-> <<>>, elems |-> <<>>]
JStr(s) == [kind |-> "string", num |-> 0, str |-> s, keys |-> <<>>, elems |-> <<>>]
JLit(k) == [kind |-> k, num |-> 0, str |-> <<>>, keys |-> <<>>, elems |-> <<>>]
JArr(es) == [kind |-> "array", num |-> 0, str |-> <<>>, keys |-> <<>>, elems |-> es]
JObj(ks, vs) == [kind |-> "object", num |-> 0, str |-> <<>>, keys |-> ks, elems |-> vs]

\* d[k] = v on a dict given as keys ks and values vs
DictPut(ks, vs, k, v) ==
    IF \E p \in 1..Len(ks) : ks[p] = k
    THEN [keys |-> ks,
          elems |-> [p \in 1..Len(vs) |-> IF ks[p] = k THEN v ELSE vs[p]]]
    ELSE [keys |-> Append(ks, k), elems |-> Append(vs, v)]

\* k in d
HasKey(d, k) == d.kind = "object" /\ \E p \in 1..Len(d.keys) : d.keys[p] = k
\* d[k], for a key that is in d
Lookup(d, k) == d.elems[CHOOSE p \in 1..Len(d.keys) : d.keys[p] = k]

\* --------------------------------------------------------------- json.loads
\* json.loads over texts that hold no backslash, no sign, fraction or
\* exponent next to a digit and no NaN or Infinity: objects, arrays, strings,
\* unsigned integers, true, false and null, with JSON whitespace between.
JsonWhitespace == {" ", "\t", "\n", "\r"}
Digits == <<"0", "1", "2", "3", "4", "5", "6", "7", "8", "9">>
IsDigit(c) == \E d \in 1..10 : Digits[d] = c
DigitValue(c) == (CHOOSE d \in 1..10 : Digits[d] = c) - 1
\* characters that may not stand unescaped inside a JSON string
ControlChars == {"\n", "\t", "\r", "\f"}

ParseFail == [ok |-> FALSE, val |-> JLit("null"), next |-> 0]
ParseOk(v, n) == [ok |-> TRUE, val |-> v, next |-> n]

RECURSIVE SkipWS(_, _)
SkipWS(s, i) ==
    IF i <= Len(s) /\ s[i] \in JsonWhitespace THEN SkipWS(s, i + 1) ELSE i

CharAt(s, i) == IF i >= 1 /\ i <= Len(s) THEN s[i] ELSE ""

\* a string whose opening quote is at i
ParseString(s, i) ==
    LET close == FindFrom(s, <<"\"">>, i + 1)
        body == SubSeq(s, i + 1, close - 1)
    IN  IF close = 0 THEN ParseFail
        ELSE IF \E p \in 1..Len(body) : body[p] \in ControlChars \cup {"\\"}
        THEN ParseFail
        ELSE ParseOk(JStr(body), close + 1)

RECURSIVE DigitsEnd(_, _)
DigitsEnd(s, i) == IF IsDigit(CharAt(s, i)) THEN DigitsEnd(s, i + 1) ELSE i
RECURSIVE DecimalValue(_)
DecimalValue(ds) ==
    IF ds = <<>> THEN 0
    ELSE 10 * DecimalValue(SubSeq(ds, 1, Len(ds) - 1)) + DigitValue(ds[Len(ds)])

\* an unsigned integer whose first digit is at i: 0, or [1-9][0-9]*
ParseNumber(s, i) ==
    IF s[i] = "0" THEN ParseOk(JNum(0), i + 1)
    ELSE LET e == DigitsEnd(s, i)
         IN  ParseOk(JNum(DecimalValue(SubSeq(s, i, e - 1))), e)

RECURSIVE ParseValue(_, _)
RECURSIVE ParseMembers(_, _, _, _)
RECURSIVE ParseElements(_, _, _)

\* the members of an object from position i on, the opening brace and the
\* whitespace after it (or after a comma) already consumed
ParseMembers(s, i, ks, vs) ==
    IF CharAt(s, i) # "\"" THEN ParseFail
    ELSE LET key == ParseString(s, i)
         IN  IF ~key.ok THEN ParseFail
             ELSE LET colon == SkipWS(s, key.next)
                  IN  IF CharAt(s, colon) # ":" THEN ParseFail
                      ELSE LET v == ParseValue(s, SkipWS(s, colon + 1))
                           IN  IF ~v.ok THEN ParseFail
                               ELSE LET d == DictPut(ks, vs, key.val.str, v.val)
                                        e == SkipWS(s, v.next)
                                    IN  IF CharAt(s, e) = "}"
                                        THEN ParseOk(JObj(d.keys, d.elems), e + 1)
                                        ELSE IF CharAt(s, e) = ","
                                        THEN ParseMembers(s, SkipWS(s, e + 1), d.keys, d.elems)
                                        ELSE ParseFail

\* the elements of an array from position i on
ParseElements(s, i, es) ==
    LET v == ParseValue(s, i)
    IN  IF ~v.ok THEN ParseFail
        ELSE LET e == SkipWS(s, v.next)
             IN  IF CharAt(s, e) = "]" THEN ParseOk(JArr(Append(es, v.val)), e + 1)
                 ELSE IF CharAt(s, e) = ","
                 THEN ParseElements(s, SkipWS(s, e + 1), Append(es, v.val))
                 ELSE ParseFail

\* the JSON value that starts at position i
ParseValue(s, i) ==
    LET c == CharAt(s, i)
    IN  IF c = "\"" THEN ParseString(s, i)
        ELSE IF c = "{"
        THEN LET j == SkipWS(s, i + 1)
             IN  IF CharAt(s, j) = "}" THEN ParseOk(JObj(<<>>, <<>>), j + 1)
                 ELSE ParseMembers(s, j, <<>>, <<>>)
        ELSE IF c = "["
        THEN LET j == SkipWS(s, i + 1)
             IN  IF CharAt(s, j) = "]" THEN ParseOk(JArr(<<>>), j + 1)
                 ELSE ParseElements(s, j, <<>>)
        ELSE IF MatchAt(s, i, <<"n", "u", "l", "l">>) THEN ParseOk(JLit("null"), i + 4)
        ELSE IF MatchAt(s, i, <<"t", "r", "u", "e">>) THEN ParseOk(JLit("true"), i + 4)
        ELSE IF MatchAt(s, i, <<"f", "a", "l", "s", "e">>) THEN ParseOk(JLit("false"), i + 5)
        ELSE IF IsDigit(c) THEN ParseNumber(s, i)
        ELSE ParseFail

\* json.loads(s): ok is FALSE where json.loads raises JSONDecodeError
json_loads(s) ==
    LET v == ParseValue(s, SkipWS(s, 1))
    IN  IF ~v.ok THEN ParseFail
        ELSE IF SkipWS(s, v.next) # Len(s) + 1 THEN ParseFail
        ELSE v

\* ------------------------------------------- QueryGenerator.generate_query
\* response_text[:200]
RawResponseLimit == 200

\* building blocks of the model's replies
\* a success payload on a line of its own: \n{"items":[]}\n
DocItemsLines ==
    <<"\n", "{", "\"", "i", "t", "e", "m", "s", "\"", ":", "[", "]", "}", "\n">>
\* {"items":[],"error":"e","transcript":"t"} : valid JSON with the keys of both payloads
DocBoth ==
    <<"{", "\"", "i", "t", "e", "m", "s", "\"", ":", "[", "]", ",", "\"",
    "e", "r", "r", "o", "r", "\"", ":", "\"", "e", "\"", ",", "\"", "t", "r",
    "a", "n", "s", "c", "r", "i", "p", "t", "\"", ":", "\"", "t", "\"", "}">>
\* a run of text one character short of the raw_response limit
Pad == [i \in 1..(RawResponseLimit - 1) |-> "x"]
ReplyTokens ==
    {FenceJson, Fence, <<Backtick>>, <<"1">>, <<"x">>, DocItemsLines, DocBoth, Pad}

RECURSIVE Flatten(_)
Flatten(ts) == IF ts = <<>> THEN <<>> ELSE Head(ts) \o Flatten(Tail(ts))

\* response.text of the model: up to MaxReplyTokens building blocks
Replies == {Flatten(ts) : ts \in UNION {[1..n -> ReplyTokens] : n \in 0..MaxReplyTokens}}

\* the transcript argument
Transcripts == {<<>>, <<"h", "i">>}
\* str(e) of an exception raised by the model
MsgApiError ==
    <<"A", "P", "I", " ", "e", "r", "r", "o", "r">>
ErrorMessages == {<<>>, MsgApiError}
\* the image_path argument: None, a path that does not exist, a file that
\* PIL cannot open, a file that PIL opens
ImageArgs == {"none", "missing", "undecodable", "ok"}

\* image_path and os.path.exists(image_path)
ImageExists(image_path) == image_path \in {"undecodable", "ok"}
\* Image.open(image_path) returns instead of raising
ImageOpens(image_path) == image_path = "ok"

\* faulty variant: the image is appended whenever the path exists
build_content_unguarded(transcript, image_path) ==
    LET text == [part |-> "text", transcript |-> transcript]
        img == [part |-> "image", transcript |-> <<>>]
    IN  IF ImageExists(image_path) THEN <<text, img>> ELSE <<text>>

\* content = ["\n".join(prompt)], plus the image when it was opened; an
\* exception of Image.open is caught and printed
build_content(transcript, image_path) ==
    LET text == [part |-> "text", transcript |-> transcript]
        img == [part |-> "image", transcript |-> <<>>]
    IN  IF ImageExists(image_path) /\ ImageOpens(image_path)
        THEN <<text, img>>
        ELSE <<text>>

\* faulty variant: the plain fence is tested first, so the json branch is never taken
extract_json_text_plain_first(response_text) ==
    IF Contains(response_text, Fence)
    THEN PyStrip(PySplit(PySplit(response_text, Fence)[2], Fence)[1])
    ELSE response_text

\* faulty variant: the text is stripped whether or not it holds a fence
extract_json_text_strip_all(response_text) ==
    IF Contains(response_text, FenceJson)
    THEN PyStrip(PySplit(PySplit(response_text, FenceJson)[2], Fence)[1])
    ELSE IF Contains(response_text, Fence)
    THEN PyStrip(PySplit(PySplit(response_text, Fence)[2], Fence)[1])
    ELSE PyStrip(response_text)

\* the reassignment of response_text: the markdown code block is removed
extract_json_text(response_text) ==
    IF Contains(response_text, FenceJson)
    THEN PyStrip(PySplit(PySplit(response_text, FenceJson)[2], Fence)[1])
    ELSE IF Contains(response_text, Fence)
    THEN PyStrip(PySplit(PySplit(response_text, Fence)[2], Fence)[1])
    ELSE response_text

\* the dictionary returned when json.loads raises JSONDecodeError;
\* response_text is the variable as it stands after the reassignment
parse_error_payload(transcript, response_text) ==
    JObj(<<KeyError, KeyTranscript, KeyRawResponse>>,
         <<JStr(MsgParse), JStr(transcript), JStr(Take(response_text, RawResponseLimit))>>)

\* faulty variant: the handler of the outer try also reports the text of the reply
invocation_error_payload_leaky(e, transcript) ==
    JObj(<<KeyError, KeyTranscript, KeyRawResponse>>,
         <<JStr(MsgFailed \o e), JStr(transcript), JStr(e)>>)

\* the dictionary returned by the handler of the outer try
invocation_error_payload(e, transcript) ==
    JObj(<<KeyError, KeyTranscript>>, <<JStr(MsgFailed \o e), JStr(transcript)>>)

\* faulty variant: a reply that does not parse is asked for a second time
generate_content_calls_retry(outcome) ==
    IF outcome = "parse-error" THEN 2 ELSE 1

\* the calls of self.model.generate_content on the path that ends in the
\* given outcome: the one call of the try block, no handler calls it again
generate_content_calls(outcome) ==
    IF outcome \in {"success", "parse-error", "invocation-error"} THEN 1 ELSE 0

NoResult == JLit("null")
NoQueryIn == [transcript |-> <<>>, image_path |-> "none"]

\* generate_query up to the call of the model: the prompt and the content
GQ_Call ==
    /\ gq_pc = "idle"
    /\ \E t \in Transcripts, img \in ImageArgs :
          /\ gq_in' = [transcript |-> t, image_path |-> img]
          /\ content' = build_content(t, img)
    /\ gq_pc' = "invoking"
    /\ UNCHANGED <<raw_reply, model_error, parsed_text, gq_result, gq_outcome, model_calls>>
    /\ UNCHANGED <<split_pc, split_in, segments, cfg_log>>
    /\ UNCHANGED laterVars

\* the model replies: fence removal, json.loads, and the return
GQ_ModelReplies ==
    /\ gq_pc = "invoking"
    /\ \E reply \in Replies :
          LET response_text == extract_json_text(reply)
              query_data == json_loads(response_text)
          IN  /\ raw_reply' = reply
              /\ parsed_text' = response_text
              /\ IF query_data.ok
                 THEN /\ gq_result' = query_data.val
                      /\ gq_outcome' = "success"
                 ELSE /\ gq_result' = parse_error_payload(gq_in.transcript, response_text)
                      /\ gq_outcome' = "parse-error"
    /\ model_calls' = model_calls + generate_content_calls(gq_outcome')
    /\ gq_pc' = "returned"
    /\ UNCHANGED <<gq_in, content, model_error>>
    /\ UNCHANGED <<split_pc, split_in, segments, cfg_log>>
    /\ UNCHANGED laterVars

\* generate_content, or reading response.text, raises: the outer handler
GQ_ModelRaises ==
    /\ gq_pc = "invoking"
    /\ \E e \in ErrorMessages :
          /\ model_error' = e
          /\ gq_result' = invocation_error_payload(e, gq_in.transcript)
    /\ gq_outcome' = "invocation-error"
    /\ model_calls' = model_calls + generate_content_calls(gq_outcome')
    /\ gq_pc' = "returned"
    /\ UNCHANGED <<gq_in, content, raw_reply, parsed_text>>
    /\ UNCHANGED <<split_pc, split_in, segments, cfg_log>>
    /\ UNCHANGED laterVars

\* the caller takes the result; the next call starts afresh
GQ_Return ==
    /\ gq_pc = "returned"
    /\ gq_pc' = "idle"
    /\ gq_in' = NoQueryIn
    /\ content' = <<>>
    /\ raw_reply' = <<>>
    /\ model_error' = <<>>
    /\ parsed_text' = <<>>
    /\ gq_result' = NoResult
    /\ gq_outcome' = "none"
    /\ model_calls' = 0
    /\ UNCHANGED <<split_pc, split_in, segments, cfg_log>>
    /\ UNCHANGED laterVars

\* ---------------------------------------------- WhisperTranscriber.transcribe
UpperLetters ==
    <<"A", "B", "C", "D", "E", "F", "G", "H", "I", "J", "K", "L", "M", "N", "O", "P", "Q", "R", "S", "T", "U", "V", "W", "X", "Y", "Z">>
LowerLetters ==
    <<"a", "b", "c", "d", "e", "f", "g", "h", "i", "j", "k", "l", "m", "n", "o", "p", "q", "r", "s", "t", "u", "v", "w", "x", "y", "z">>
\* str.lower() on one character
LowerChar(c) ==
    IF \E i \in 1..Len(UpperLetters) : UpperLetters[i] = c
    THEN LowerLetters[CHOOSE i \in 1..Len(UpperLetters) : UpperLetters[i] = c]
    ELSE c
\* str.lower()
Lower(s) == [i \in 1..Len(s) |-> LowerChar(s[i])]

\* an Optional[str]: None, or a string
PyNone == [is_none |-> TRUE, text |-> <<>>]
PyStr(t) == [is_none |-> FALSE, text |-> t]
\* truth value of an Optional[str]
Truthy(v) == ~v.is_none /\ v.text # <<>>

AutoDetect == <<"a", "u", "t", "o", "-", "d", "e", "t", "e", "c", "t">>
NoneString == <<"N", "o", "n", "e">>
KeyLanguage == <<"l", "a", "n", "g", "u", "a", "g", "e">>
\* the language argument
Languages ==
    {PyNone, PyStr(<<>>), PyStr(AutoDetect), PyStr(<<"A", "u", "t", "o", "-", "D", "e", "t", "e", "c", "t">>),
     PyStr(NoneString), PyStr(<<"n", "o", "n", "e">>), PyStr(<<"e", "s">>), PyStr(<<"x", "x">>)}
\* the audio argument: a path string, or an AudioData with its file_path,
\* which is Optional[str]
StrAudio(path) == [kind |-> "str", file_path |-> PyStr(path)]
AudioData(file_path) == [kind |-> "AudioData", file_path |-> file_path]
PathOfString == <<"/", "t", "m", "p", "/", "t", "e", "s", "t", ".", "w", "a", "v">>
PathOfAudioData == <<"/", "t", "m", "p", "/", "d", "a", "t", "a", ".", "w", "a", "v">>
AudioArgs ==
    {StrAudio(PathOfString), StrAudio(<<>>), AudioData(PyStr(PathOfAudioData)),
     AudioData(PyNone), AudioData(PyStr(<<>>))}

\* faulty variant: an AudioData is transcribed whether or not it names a file
audio_path_unchecked(audio) ==
    IF audio.file_path.is_none THEN PyStr(<<>>) ELSE audio.file_path

\* audio_path: the string itself, or the file_path of the AudioData, None
\* when that is None or empty
audio_path(audio) ==
    IF audio.kind = "str" THEN audio.file_path
    ELSE IF Truthy(audio.file_path) THEN audio.file_path
    ELSE PyNone

\* an exception: its class and str(e)
Exc(type, msg) == [type |-> type, msg |-> msg]
NoExc == Exc("none", <<>>)
MsgNoPath ==
    <<"A", "u", "d", "i", "o", "D", "a", "t", "a", " ", "o", "b", "j", "e", "c", "t", " ", "m", "u", "s", "t", " ", "h", "a", "v", "e", " ", "a", " ", "f", "i", "l", "e", "_", "p", "a", "t", "h", " ", "o", "r", " ", "p", "r", "o", "v", "i", "d", "e">> \o
    <<" ", "n", "u", "m", "p", "y", " ", "a", "r", "r", "a", "y", " ", "f", "o", "r", " ", "t", "r", "a", "n", "s", "c", "r", "i", "p", "t", "i", "o", "n">>
\* exceptions the Whisper model may raise
ModelErrors ==
    {Exc("ValueError", <<"U", "n", "s", "u", "p", "p", "o", "r", "t", "e", "d", " ", "l", "a", "n", "g", "u", "a", "g", "e", ":", " ", "x", "x">>),
     Exc("RuntimeError", <<"L", "A", "N", "G", "U", "A", "G", "E", " ", "t", "o", "k", "e", "n", "s", " ", "m", "i", "s", "s", "i", "n", "g">>),
     Exc("RuntimeError", <<"c", "o", "r", "r", "u", "p", "t", " ", "a", "u", "d", "i", "o">>),
     Exc("RuntimeError", <<>>)}
\* a key of the dictionary of the model that may be missing
Missing == [present |-> FALSE, value |-> 0]
Present(v) == [present |-> TRUE, value |-> v]
\* dictionaries the Whisper model may return: text, language when present,
\* duration (in seconds) when present
ModelReplies ==
    {[text |-> <<"h", "i">>, language |-> PyStr(<<"e", "n">>), duration |-> Present(2)],
     [text |-> <<"h", "i">>, language |-> PyStr(<<"e", "n">>), duration |-> Missing],
     [text |-> <<>>, language |-> PyNone, duration |-> Missing]}
NoReply == [text |-> <<>>, language |-> PyNone, duration |-> Missing]

\* the keyword options of a model call
NoOptions == [has_language |-> FALSE, language |-> <<>>]
LanguageOption(t) == [has_language |-> TRUE, language |-> t]

\* faulty variant: only None and the empty string leave the option out
transcribe_options_truthy(language) ==
    IF Truthy(language) THEN LanguageOption(language.text) ELSE NoOptions

\* options = {}; the language is set unless it is falsy, "auto-detect" in
\* any case, or "None"
transcribe_options(language) ==
    IF Truthy(language) /\ Lower(language.text) # AutoDetect /\ language.text # NoneString
    THEN LanguageOption(language.text)
    ELSE NoOptions

\* faulty variant: every failure of the first call is tried again
is_language_error_always(e) == TRUE

\* the test of the handler: "language" in str(e).lower()
is_language_error(e) == Contains(Lower(e.msg), KeyLanguage)

\* faulty variant: the second call repeats the options of the first
retry_options_same(options) == options

\* the options of the call made by the handler: none
retry_options(options) == NoOptions

\* TranscriptionResult(text=result["text"], language=result.get("language"), ...)
\* faulty variant: the duration is never taken from the dictionary
TranscriptionResult_no_duration(result) ==
    [text |-> result.text, language |-> result.language, duration |-> 0]

TranscriptionResult(result) ==
    [text |-> result.text, language |-> result.language,
     duration |-> IF result.duration.present THEN result.duration.value ELSE 0]
NoTranscription == [text |-> <<>>, language |-> PyNone, duration |-> 0]
NoTranscribeIn == [audio |-> StrAudio(<<>>), language |-> PyNone]

\* transcribe up to the first call of the model: the audio path, the options
TR_Call ==
    /\ tr_pc = "idle"
    /\ \E a \in AudioArgs, l \in Languages :
          /\ tr_in' = [audio |-> a, language |-> l]
          /\ IF audio_path(a).is_none
             THEN /\ tr_pc' = "done"
                  /\ tr_outcome' = "raised"
                  /\ tr_raised' = Exc("ValueError", MsgNoPath)
                  /\ tr_calls' = <<>>
                  /\ tr_paths' = <<>>
             ELSE /\ tr_pc' = "first"
                  /\ tr_calls' = <<transcribe_options(l)>>
                  /\ tr_paths' = <<audio_path(a).text>>
                  /\ UNCHANGED <<tr_outcome, tr_raised>>
    /\ UNCHANGED <<tr_errors, tr_reply, tr_result>>
    /\ UNCHANGED trRest

\* the first call returns: the result object is built and returned
TR_FirstReturns ==
    /\ tr_pc = "first"
    /\ \E r \in ModelReplies :
          /\ tr_reply' = r
          /\ tr_result' = TranscriptionResult(r)
    /\ tr_outcome' = "returned"
    /\ tr_pc' = "done"
    /\ UNCHANGED <<tr_in, tr_calls, tr_paths, tr_errors, tr_raised>>
    /\ UNCHANGED trRest

\* the first call raises: the handler calls the model again without options
\* when the message names the language, and re-raises otherwise
TR_FirstRaises ==
    /\ tr_pc = "first"
    /\ \E e \in ModelErrors :
          /\ tr_errors' = <<e>>
          /\ IF is_language_error(e)
             THEN /\ tr_calls' = Append(tr_calls, retry_options(tr_calls[1]))
                  /\ tr_paths' = Append(tr_paths, tr_paths[1])
                  /\ tr_pc' = "retry"
                  /\ UNCHANGED <<tr_outcome, tr_raised>>
             ELSE /\ tr_pc' = "done"
                  /\ tr_outcome' = "raised"
                  /\ tr_raised' = e
                  /\ UNCHANGED <<tr_calls, tr_paths>>
    /\ UNCHANGED <<tr_in, tr_reply, tr_result>>
    /\ UNCHANGED trRest

\* the call of the handler returns
TR_RetryReturns ==
    /\ tr_pc = "retry"
    /\ \E r \in ModelReplies :
          /\ tr_reply' = r
          /\ tr_result' = TranscriptionResult(r)
    /\ tr_outcome' = "returned"
    /\ tr_pc' = "done"
    /\ UNCHANGED <<tr_in, tr_calls, tr_paths, tr_errors, tr_raised>>
    /\ UNCHANGED trRest

\* the call of the handler raises: nothing catches the exception
TR_RetryRaises ==
    /\ tr_pc = "retry"
    /\ \E e \in ModelErrors :
          /\ tr_errors' = Append(tr_errors, e)
          /\ tr_raised' = e
    /\ tr_outcome' = "raised"
    /\ tr_pc' = "done"
    /\ UNCHANGED <<tr_in, tr_calls, tr_paths, tr_reply, tr_result>>
    /\ UNCHANGED trRest

\* the caller has the result or the exception; the next call starts afresh
TR_Return ==
    /\ tr_pc = "done"
    /\ tr_pc' = "idle"
    /\ tr_in' = NoTranscribeIn
    /\ tr_calls' = <<>>
    /\ tr_paths' = <<>>
    /\ tr_errors' = <<>>
    /\ tr_reply' = NoReply
    /\ tr_outcome' = "none"
    /\ tr_result' = NoTranscription
    /\ tr_raised' = NoExc
    /\ UNCHANGED trRest


\* ------------------------------------------------- transcribe_audio (app.py)
\* the samples whisper.load_audio returns; a sample is named by its position
PipelineAudios == {[i \in 1..n |-> i] : n \in 0..MaxAudioLen}
\* result["text"] of a call of the Whisper model
PipelineTexts == {<<>>, <<"a">>, <<" ", "b">>}
NoPipelineIn == [file_size |-> 0, audio |-> <<>>]
NoConfig == [batch_size |-> 0, compute_type |-> "none", beam_size |-> 0]

\* faulty variant: a file of exactly the threshold size is split too
takes_segment_branch_ge(file_size) ==
    file_size >= SegmentThresholdMB * TicksPerMB

\* if file_size_mb > 30; file_size is file_size_mb in ticks
takes_segment_branch(file_size) ==
    file_size > SegmentThresholdMB * TicksPerMB

\* faulty variant: the segments are taken from the last to the first
segment_order_reversed(n) == [k \in 1..n |-> n + 1 - k]

\* enumerate(segments): the k-th pass of the loop takes segment k
segment_order(n) == [k \in 1..n |-> k]

\* full_result["text"] += result["text"] + " "
append_text(full_text, text) == full_text \o text \o <<" ">>

\* faulty variant: the call is made without the keyword arguments
TranscribeCall_bare(index, samples, config) ==
    [index |-> index, samples |-> samples, config |-> NoConfig]

\* a call model.transcribe(segment, **whisper_config); index 0 is the call
\* model.transcribe(str(audio_path), **whisper_config) on the whole file
TranscribeCall(index, samples, config) ==
    [index |-> index, samples |-> samples, config |-> config]

\* transcribe_audio up to its first call of the model: the size, the
\* configuration, the branch, the split
PL_Call ==
    /\ pl_pc = "idle"
    /\ \E f \in FileSizes, audio \in PipelineAudios :
          LET whisper_config == optimize_whisper_config(f)
              segs == split_audio(audio, PipelineSampleRate, PipelineSegmentSec)
              n == Len(segs)
          IN  /\ pl_in' = [file_size |-> f, audio |-> audio]
              /\ pl_config' = whisper_config
              /\ IF takes_segment_branch(f)
                 THEN /\ pl_segments' = segs
                      /\ IF n = 0
                         THEN /\ pl_pc' = "done"
                              /\ pl_outcome' = "returned"
                              /\ pl_calls' = <<>>
                         ELSE /\ pl_pc' = "segment"
                              /\ pl_outcome' = "none"
                              /\ pl_calls' = <<TranscribeCall(segment_order(n)[1],
                                                  segs[segment_order(n)[1]], whisper_config)>>
                 ELSE /\ pl_segments' = <<>>
                      /\ pl_pc' = "direct"
                      /\ pl_outcome' = "none"
                      /\ pl_calls' = <<TranscribeCall(0, <<>>, whisper_config)>>
    /\ pl_texts' = <<>>
    /\ pl_text' = <<>>
    /\ UNCHANGED plRest

\* the call for a segment returns: its text is appended, and the loop goes
\* on to the next segment or the function returns
PL_SegmentReturns ==
    /\ pl_pc = "segment"
    /\ \E t \in PipelineTexts :
          /\ pl_texts' = Append(pl_texts, t)
          /\ pl_text' = append_text(pl_text, t)
    /\ LET n == Len(pl_segments)
           k == Len(pl_calls) + 1
       IN  IF k <= n
           THEN /\ pl_calls' = Append(pl_calls,
                      TranscribeCall(segment_order(n)[k], pl_segments[segment_order(n)[k]], pl_config))
                /\ UNCHANGED <<pl_pc, pl_outcome>>
           ELSE /\ pl_pc' = "done"
                /\ pl_outcome' = "returned"
                /\ UNCHANGED pl_calls
    /\ UNCHANGED <<pl_in, pl_config, pl_segments>>
    /\ UNCHANGED plRest

\* the call for a segment raises: nothing catches it, nothing is returned
PL_SegmentRaises ==
    /\ pl_pc = "segment"
    /\ pl_pc' = "done"
    /\ pl_outcome' = "raised"
    /\ UNCHANGED <<pl_in, pl_config, pl_segments, pl_calls, pl_texts, pl_text>>
    /\ UNCHANGED plRest

\* the call on the whole file returns: its dictionary is the result
PL_DirectReturns ==
    /\ pl_pc = "direct"
    /\ \E t \in PipelineTexts :
          /\ pl_texts' = <<t>>
          /\ pl_text' = t
    /\ pl_pc' = "done"
    /\ pl_outcome' = "returned"
    /\ UNCHANGED <<pl_in, pl_config, pl_segments, pl_calls>>
    /\ UNCHANGED plRest

\* the call on the whole file raises
PL_DirectRaises ==
    /\ pl_pc = "direct"
    /\ pl_pc' = "done"
    /\ pl_outcome' = "raised"
    /\ UNCHANGED <<pl_in, pl_config, pl_segments, pl_calls, pl_texts, pl_text>>
    /\ UNCHANGED plRest

\* the caller has the result or the exception; the next run starts afresh
PL_Return ==
    /\ pl_pc = "done"
    /\ pl_pc' = "idle"
    /\ pl_in' = NoPipelineIn
    /\ pl_config' = NoConfig
    /\ pl_segments' = <<>>
    /\ pl_calls' = <<>>
    /\ pl_texts' = <<>>
    /\ pl_text' = <<>>
    /\ pl_outcome' = "none"
    /\ UNCHANGED plRest

\* ------------------------------------------------- the endpoints (api.py)
MsgNoAudioFile == <<"N", "o", " ", "a", "u", "d", "i", "o", " ", "f", "i", "l", "e", " ", "p", "r", "o", "v", "i", "d", "e", "d">>
MsgProcessing ==
    <<"E", "r", "r", "o", "r", " ", "p", "r", "o", "c", "e", "s", "s", "i", "n", "g", " ", "r", "e", "q", "u", "e", "s", "t", ":", " ">>
\* the detail of the error of /transcribe
MsgTranscription ==
    <<"E", "r", "r", "o", "r", " ", "d", "u", "r", "i", "n", "g", " ", "t", "r", "a", "n", "s", "c", "r", "i", "p", "t", "i", "o", "n", ":", " ">>
\* the detail of the error of /generate-query
MsgGenerating ==
    <<"E", "r", "r", "o", "r", " ", "g", "e", "n", "e", "r", "a", "t", "i", "n", "g", " ", "q", "u", "e", "r", "y", ":", " ">>
\* the detail of check_query_generator_available
MsgUnavailable ==
    <<"Q", "u", "e", "r", "y", " ", "g", "e", "n", "e", "r", "a", "t", "i", "o", "n", " ", "i", "s", " ", "n", "o", "t", " ", "a", "v", "a", "i", "l", "a", "b", "l", "e", ".", " ", "P", "l", "e", "a", "s", "e", " ", "c", "h", "e", "c", "k", " ", "A", "P", "I", " ", "k", "e", "y", " ", "c", "o", "n", "f", "i", "g", "u", "r", "a", "t", "i", "o", "n", ".">>
StatusOk == 200
StatusBadRequest == 400
StatusInternalError == 500
StatusUnavailable == 503
\* the language form field
ProcessLanguages == {PyNone, PyStr(<<"e", "s">>)}
\* response.text of the generative model within a request: a JSON object,
\* a text that does not parse
ProcessReplies == {DocItemsLines, <<"x">>}
\* the exception load_audio raises on a file it cannot read
LoadError == Exc("RuntimeError", <<"c", "o", "r", "r", "u", "p", "t", " ", "a", "u", "d", "i", "o">>)
\* the exception of a write to the temporary directory that fails
SaveError == Exc("OSError", <<"n", "o", " ", "s", "p", "a", "c", "e">>)
\* what may fail before the transcriber is called: nothing, the save of the
\* audio, the save of the image, load_audio
EarlyFailures == {"none", "save", "image-save", "load"}
\* the temporary files of a request, named by the upload they hold
TmpAudio == "audio"
TmpImage == "image"
\* str(temp_image), the path handed to generate_query
TmpImagePath == PyStr(<<"/", "t", "m", "p", "/", "i", ".", "j", "p", "g">>)

\* a response body with its status code
Response(code, success, transcription, query, error) ==
    [code |-> code, success |-> success, transcription |-> transcription,
     query |-> query, error |-> error]
NoResponse == Response(0, FALSE, PyNone, JLit("null"), PyNone)
\* http_exception_handler: the body of a raised HTTPException
ErrorResponse(code, detail) ==
    Response(code, FALSE, PyNone, JLit("null"), PyStr(detail))

\* the dictionary /process returns after its two steps
process_success_response(transcription, query_json) ==
    Response(StatusOk, TRUE, PyStr(transcription), query_json, PyNone)

\* the dictionary /transcribe returns; TranscriptionResponse has no query
transcribe_success_response(text) ==
    Response(StatusOk, TRUE, PyStr(text), JLit("null"), PyNone)

\* the dictionary /generate-query returns
generate_success_response(transcription, query_json) ==
    Response(StatusOk, TRUE, PyStr(transcription), query_json, PyNone)

\* the body of /health, the fields that depend on the start-up
health_body(generator) ==
    [status |-> "healthy", query_generation_available |-> generator # "none"]
NoHealth == [status |-> "none", query_generation_available |-> FALSE]

\* a call transcriber.transcribe(audio_data, language=language): the whole
\* uploaded file, no configuration
ProcessTranscribeCall(language) == [input |-> "file", language |-> language]

\* faulty variant: the generator is handed an empty transcript
generate_query_call_blank(transcription, image_path) ==
    [transcript |-> <<>>, image_path |-> image_path]

\* a call generator.generate_query(transcription, image_path)
generate_query_call(transcription, image_path) ==
    [transcript |-> transcription, image_path |-> image_path]

\* faulty variant: the dependency lets every request through
check_query_generator_available_open(generator) == TRUE

\* check_query_generator_available: raises 503 when query_generator is None
check_query_generator_available(generator) == generator # "none"

\* something an endpoint did with a temporary file or with one of its steps
Event(op, file) == [op |-> op, file |-> file]

\* faulty variant: the file is saved and no cleanup is registered
save_and_register_forgetful(file) == <<Event("save", file)>>

\* temp = save_upload_file_tmp(upload); background_tasks.add_task(
\* cleanup_tmp_file, temp)
save_and_register(file) == <<Event("save", file), Event("add_task", file)>>

\* the files of the tasks registered by add_task, in the order of registration
RECURSIVE registered_tasks(_)
registered_tasks(events) ==
    IF events = <<>> THEN <<>>
    ELSE IF Head(events).op = "add_task"
    THEN <<Head(events).file>> \o registered_tasks(Tail(events))
    ELSE registered_tasks(Tail(events))

\* the temporary files the events left on the disk: a save that failed has
\* created its file too (NamedTemporaryFile(delete=False))
RECURSIVE created_files(_)
created_files(events) ==
    IF events = <<>> THEN {}
    ELSE (IF Head(events).op \in {"save", "save-failed"} THEN {Head(events).file} ELSE {})
            \cup created_files(Tail(events))

\* faulty variant: os.unlink is called outside a try
cleanup_tmp_file_unguarded(file_path, files) ==
    IF file_path \in files
    THEN [outcome |-> "removed", files |-> files \ {file_path}]
    ELSE [outcome |-> "raised", files |-> files]

\* cleanup_tmp_file: os.unlink, and a message printed when it raises
cleanup_tmp_file(file_path, files) ==
    IF file_path \in files
    THEN [outcome |-> "removed", files |-> files \ {file_path}]
    ELSE [outcome |-> "printed", files |-> files]

\* load_audio of the saved upload raises: librosa has nothing to decode in a
\* file without content, and other files may be unreadable
load_audio_raises(file_size, fails) == file_size = 0 \/ fails = "load"

\* what generate_query hands back for a transcript: the parsed reply of the
\* model, or one of its two error dictionaries
generate_query_results(transcript) ==
    {  LET response_text == extract_json_text(reply)
           query_data == json_loads(response_text)
       IN  IF query_data.ok
           THEN [gen |-> "success", query |-> query_data.val]
           ELSE [gen |-> "parse-error",
                 query |-> parse_error_payload(transcript, response_text)]
       : reply \in ProcessReplies }
    \cup { [gen |-> "invocation-error", query |-> invocation_error_payload(e, transcript)]
           : e \in ErrorMessages }

NoProcessIn == [endpoint |-> "none", has_filename |-> TRUE, file_size |-> 0,
                has_image |-> FALSE, language |-> PyNone, transcription |-> <<>>]

\* the module is imported: QueryGenerator() is built, or raises ValueError
\* for want of an API key and query_generator is None
API_Startup ==
    /\ query_generator = "unset"
    /\ query_generator' \in {"generator", "none"}
    /\ UNCHANGED <<pr_pc, pr_in, pr_calls, pr_transcription, pr_gen, pr_failed,
                   pr_response, pr_events, pr_gen_calls, tmp_files, pr_cleaned, pr_health>>
    /\ UNCHANGED prRest

\* an endpoint ends before its first blocking call with an HTTPException
EndsEarly(failed, code, detail, events) ==
    /\ pr_pc' = "done"
    /\ pr_failed' = failed
    /\ pr_response' = ErrorResponse(code, detail)
    /\ pr_events' = events
    /\ tmp_files' = created_files(events)
    /\ pr_calls' = <<>>

\* /process up to the call of the transcriber: the dependency, the file
\* name, the temporary files and their cleanup tasks, load_audio
PR_Call ==
    /\ pr_pc = "idle"
    /\ query_generator # "unset"
    /\ \E named \in BOOLEAN, f \in FileSizes, img \in BOOLEAN,
          l \in ProcessLanguages, fails \in EarlyFailures :
          /\ pr_in' = [endpoint |-> "process", has_filename |-> named, file_size |-> f,
                       has_image |-> img, language |-> l, transcription |-> <<>>]
          /\ LET audio_saved == save_and_register(TmpAudio)
                 all_saved == audio_saved \o (IF img THEN save_and_register(TmpImage) ELSE <<>>)
                 loaded == all_saved \o <<Event("load_audio", TmpAudio)>>
             IN  IF ~check_query_generator_available(query_generator)
                 THEN EndsEarly("unavailable", StatusUnavailable, MsgUnavailable, <<>>)
                 ELSE IF ~named
                 THEN EndsEarly("no-file", StatusBadRequest, MsgNoAudioFile, <<>>)
                 ELSE IF fails = "save"
                 THEN EndsEarly("save", StatusInternalError, MsgProcessing \o SaveError.msg,
                                <<Event("save-failed", TmpAudio)>>)
                 ELSE IF img /\ fails = "image-save"
                 THEN EndsEarly("save", StatusInternalError, MsgProcessing \o SaveError.msg,
                                audio_saved \o <<Event("save-failed", TmpImage)>>)
                 ELSE IF load_audio_raises(f, fails)
                 THEN EndsEarly("load", StatusInternalError, MsgProcessing \o LoadError.msg,
                                loaded)
                 ELSE /\ pr_pc' = "transcribing"
                      /\ pr_failed' = "none"
                      /\ pr_response' = NoResponse
                      /\ pr_events' = loaded \o <<Event("transcribe", TmpAudio)>>
                      /\ tmp_files' = created_files(loaded)
                      /\ pr_calls' = <<ProcessTranscribeCall(l)>>
    /\ pr_transcription' = <<>>
    /\ pr_gen' = "none"
    /\ pr_gen_calls' = <<>>
    /\ UNCHANGED <<query_generator, pr_cleaned, pr_health>>
    /\ UNCHANGED prRest

\* the transcriber returns: generate_query is called with result.text and
\* the path of the image, when there is one
PR_TranscribeReturns ==
    /\ pr_pc = "transcribing"
    /\ pr_in.endpoint = "process"
    /\ \E t \in Transcripts :
          /\ pr_transcription' = t
          /\ pr_gen_calls' = <<generate_query_call(t,
                                  IF pr_in.has_image THEN TmpImagePath ELSE PyNone)>>
    /\ pr_events' = Append(pr_events, Event("generate_query", "none"))
    /\ pr_pc' = "generating"
    /\ UNCHANGED <<pr_in, pr_calls, pr_gen, pr_failed, pr_response, query_generator,
                   tmp_files, pr_cleaned, pr_health>>
    /\ UNCHANGED prRest

\* the transcriber raises: the handler turns the exception into a 500
PR_TranscribeRaises ==
    /\ pr_pc = "transcribing"
    /\ pr_in.endpoint = "process"
    /\ \E e \in ModelErrors :
          pr_response' = ErrorResponse(StatusInternalError, MsgProcessing \o e.msg)
    /\ pr_failed' = "transcription"
    /\ pr_pc' = "done"
    /\ UNCHANGED <<pr_in, pr_calls, pr_transcription, pr_gen, query_generator,
                   pr_events, pr_gen_calls, tmp_files, pr_cleaned, pr_health>>
    /\ UNCHANGED prRest

\* generate_query returns, with a query or with one of its error
\* dictionaries, and /process returns its dictionary
PR_GenerateReturns ==
    /\ pr_pc = "generating"
    /\ pr_in.endpoint = "process"
    /\ \E r \in generate_query_results(pr_gen_calls[1].transcript) :
          /\ pr_gen' = r.gen
          /\ pr_response' = process_success_response(pr_transcription, r.query)
    /\ pr_pc' = "done"
    /\ UNCHANGED <<pr_in, pr_calls, pr_transcription, pr_failed, query_generator,
                   pr_events, pr_gen_calls, tmp_files, pr_cleaned, pr_health>>
    /\ UNCHANGED prRest

\* /transcribe up to the call of the transcriber: the file name, the
\* temporary file and its cleanup task, load_audio
TE_Call ==
    /\ pr_pc = "idle"
    /\ query_generator # "unset"
    /\ \E named \in BOOLEAN, f \in FileSizes, l \in ProcessLanguages,
          fails \in EarlyFailures \ {"image-save"} :
          /\ pr_in' = [endpoint |-> "transcribe", has_filename |-> named, file_size |-> f,
                       has_image |-> FALSE, language |-> l, transcription |-> <<>>]
          /\ LET loaded == save_and_register(TmpAudio) \o <<Event("load_audio", TmpAudio)>>
             IN  IF ~named
                 THEN EndsEarly("no-file", StatusBadRequest, MsgNoAudioFile, <<>>)
                 ELSE IF fails = "save"
                 THEN EndsEarly("save", StatusInternalError, MsgTranscription \o SaveError.msg,
                                <<Event("save-failed", TmpAudio)>>)
                 ELSE IF load_audio_raises(f, fails)
                 THEN EndsEarly("load", StatusInternalError, MsgTranscription \o LoadError.msg,
                                loaded)
                 ELSE /\ pr_pc' = "transcribing"
                      /\ pr_failed' = "none"
                      /\ pr_response' = NoResponse
                      /\ pr_events' = loaded \o <<Event("transcribe", TmpAudio)>>
                      /\ tmp_files' = created_files(loaded)
                      /\ pr_calls' = <<ProcessTranscribeCall(l)>>
    /\ pr_transcription' = <<>>
    /\ pr_gen' = "none"
    /\ pr_gen_calls' = <<>>
    /\ UNCHANGED <<query_generator, pr_cleaned, pr_health>>
    /\ UNCHANGED prRest

\* the transcriber returns and /transcribe returns its dictionary
TE_TranscribeReturns ==
    /\ pr_pc = "transcribing"
    /\ pr_in.endpoint = "transcribe"
    /\ \E t \in Transcripts :
          /\ pr_transcription' = t
          /\ pr_response' = transcribe_success_response(t)
    /\ pr_pc' = "done"
    /\ UNCHANGED <<pr_in, pr_calls, pr_gen, pr_failed, query_generator,
                   pr_events, pr_gen_calls, tmp_files, pr_cleaned, pr_health>>
    /\ UNCHANGED prRest

\* the transcriber raises within /transcribe
TE_TranscribeRaises ==
    /\ pr_pc = "transcribing"
    /\ pr_in.endpoint = "transcribe"
    /\ \E e \in ModelErrors :
          pr_response' = ErrorResponse(StatusInternalError, MsgTranscription \o e.msg)
    /\ pr_failed' = "transcription"
    /\ pr_pc' = "done"
    /\ UNCHANGED <<pr_in, pr_calls, pr_transcription, pr_gen, query_generator,
                   pr_events, pr_gen_calls, tmp_files, pr_cleaned, pr_health>>
    /\ UNCHANGED prRest

\* /generate-query up to the call of the generator: the dependency, the
\* temporary file of the image and its cleanup task
GE_Call ==
    /\ pr_pc = "idle"
    /\ query_generator # "unset"
    /\ \E t \in Transcripts, img \in BOOLEAN, fails \in {"none", "image-save"} :
          /\ pr_in' = [endpoint |-> "generate-query", has_filename |-> FALSE, file_size |-> 0,
                       has_image |-> img, language |-> PyNone, transcription |-> t]
          /\ IF ~check_query_generator_available(query_generator)
             THEN /\ EndsEarly("unavailable", StatusUnavailable, MsgUnavailable, <<>>)
                  /\ pr_gen_calls' = <<>>
             ELSE IF img /\ fails = "image-save"
             THEN /\ EndsEarly("save", StatusInternalError, MsgGenerating \o SaveError.msg,
                               <<Event("save-failed", TmpImage)>>)
                  /\ pr_gen_calls' = <<>>
             ELSE LET saved == IF img THEN save_and_register(TmpImage) ELSE <<>>
                  IN  /\ pr_pc' = "generating"
                      /\ pr_failed' = "none"
                      /\ pr_response' = NoResponse
                      /\ pr_events' = saved \o <<Event("generate_query", "none")>>
                      /\ tmp_files' = created_files(saved)
                      /\ pr_calls' = <<>>
                      /\ pr_gen_calls' = <<generate_query_call(t,
                                              IF img THEN TmpImagePath ELSE PyNone)>>
    /\ pr_transcription' = <<>>
    /\ pr_gen' = "none"
    /\ UNCHANGED <<query_generator, pr_cleaned, pr_health>>
    /\ UNCHANGED prRest

\* generate_query returns and /generate-query returns its dictionary
GE_GenerateReturns ==
    /\ pr_pc = "generating"
    /\ pr_in.endpoint = "generate-query"
    /\ \E r \in generate_query_results(pr_gen_calls[1].transcript) :
          /\ pr_gen' = r.gen
          /\ pr_response' = generate_success_response(pr_in.transcription, r.query)
    /\ pr_pc' = "done"
    /\ UNCHANGED <<pr_in, pr_calls, pr_transcription, pr_failed, query_generator,
                   pr_events, pr_gen_calls, tmp_files, pr_cleaned, pr_health>>
    /\ UNCHANGED prRest

\* /health
Health ==
    /\ pr_pc = "idle"
    /\ query_generator # "unset"
    /\ pr_in' = [NoProcessIn EXCEPT !.endpoint = "health"]
    /\ pr_health' = health_body(query_generator)
    /\ pr_pc' = "done"
    /\ UNCHANGED <<pr_calls, pr_transcription, pr_gen, pr_failed, pr_response,
                   query_generator, pr_events, pr_gen_calls, tmp_files, pr_cleaned>>
    /\ UNCHANGED prRest

\* the next registered background task runs, once the endpoint is through
PR_CleanupRuns ==
    /\ pr_pc = "done"
    /\ Len(pr_cleaned) < Len(registered_tasks(pr_events))
    /\ LET file_path == registered_tasks(pr_events)[Len(pr_cleaned) + 1]
           done == cleanup_tmp_file(file_path, tmp_files)
       IN  /\ pr_cleaned' = Append(pr_cleaned, [file |-> file_path, outcome |-> done.outcome])
           /\ tmp_files' = done.files
    /\ UNCHANGED <<pr_pc, pr_in, pr_calls, pr_transcription, pr_gen, pr_failed,
                   pr_response, query_generator, pr_events, pr_gen_calls, pr_health>>
    /\ UNCHANGED prRest

\* something else than the service removes a temporary file of the request
TmpFileRemoved ==
    /\ pr_pc = "done"
    /\ \E file \in tmp_files : tmp_files' = tmp_files \ {file}
    /\ UNCHANGED <<pr_pc, pr_in, pr_calls, pr_transcription, pr_gen, pr_failed,
                   pr_response, query_generator, pr_events, pr_gen_calls, pr_cleaned,
                   pr_health>>
    /\ UNCHANGED prRest

\* the caller has the response; the next request starts afresh
PR_Return ==
    /\ pr_pc = "done"
    /\ pr_pc' = "idle"
    /\ pr_in' = NoProcessIn
    /\ pr_calls' = <<>>
    /\ pr_transcription' = <<>>
    /\ pr_gen' = "none"
    /\ pr_failed' = "none"
    /\ pr_response' = NoResponse
    /\ pr_events' = <<>>
    /\ pr_gen_calls' = <<>>
    /\ tmp_files' = {}
    /\ pr_cleaned' = <<>>
    /\ pr_health' = NoHealth
    /\ UNCHANGED query_generator
    /\ UNCHANGED prRest

\* ------------------------------------------- transcription handlers (app.py)
\* the two handlers of the UI, transcribe_audio_file and
\* transcribe_recorded_audio; each serves one request at a time
Handlers == {"file", "recorded"}
\* WhisperTranscriber.AVAILABLE_MODELS
AVAILABLE_MODELS == {"tiny", "base", "small", "medium", "large"}
\* the model names a request may carry: three that are available, one
\* that is not
ModelNames == {"tiny", "base", "small", "huge"}
\* os.getenv("WHISPER_MODEL", "base")
DefaultModel == "base"

\* faulty variant: the constructor takes any name
init_accepts_any(model_name) == TRUE

\* WhisperTranscriber.__init__: model_name in self.AVAILABLE_MODELS
init_accepts(model_name) == model_name \in AVAILABLE_MODELS

\* faulty variant: a name the constructor rejects is not caught
handler_result_leaky(failure) ==
    IF failure = "none" THEN "text"
    ELSE IF failure = "rejected" THEN "raised"
    ELSE "error-text"

\* what the handler hands back: result.text, or the error text of its
\* argument checks and of its except clause
handler_result(failure) ==
    IF failure = "none" THEN "text" ELSE "error-text"

\* the handler is called: its argument checks return an error text, or it
\* goes on to compare the model names
UI_Request(h) ==
    /\ ui_pc[h] = "idle"
    /\ \E m \in ModelNames, valid \in BOOLEAN :
          /\ ui_model' = [ui_model EXCEPT ![h] = m]
          /\ IF valid
             THEN /\ ui_pc' = [ui_pc EXCEPT ![h] = "check"]
                  /\ UNCHANGED <<ui_failure, ui_result>>
             ELSE /\ ui_pc' = [ui_pc EXCEPT ![h] = "done"]
                  /\ ui_failure' = [ui_failure EXCEPT ![h] = "no-input"]
                  /\ ui_result' = [ui_result EXCEPT ![h] = handler_result("no-input")]
    /\ UNCHANGED <<transcriber, ui_used, ui_loads, ui_built>>
    /\ UNCHANGED uiRest

\* if transcriber.model_name != model_name
UI_Check(h) ==
    /\ ui_pc[h] = "check"
    /\ ui_pc' = [ui_pc EXCEPT ![h] =
                    IF transcriber # ui_model[h] THEN "install" ELSE "transcribe"]
    /\ UNCHANGED <<transcriber, ui_model, ui_used, ui_failure, ui_result, ui_loads, ui_built>>
    /\ UNCHANGED uiRest

\* transcriber = WhisperTranscriber(model_name=model_name): the constructor
\* rejects the name, or loads the model; the module-level name is assigned
\* when the constructor returned
UI_Install(h) ==
    /\ ui_pc[h] = "install"
    /\ IF ~init_accepts(ui_model[h])
       THEN /\ ui_failure' = [ui_failure EXCEPT ![h] = "rejected"]
            /\ ui_result' = [ui_result EXCEPT ![h] = handler_result("rejected")]
            /\ ui_pc' = [ui_pc EXCEPT ![h] = "done"]
            /\ UNCHANGED <<transcriber, ui_loads, ui_built>>
       ELSE /\ ui_loads' = [ui_loads EXCEPT ![h] = Append(@, ui_model[h])]
            /\ \E loaded \in BOOLEAN :
                  IF loaded
                  THEN /\ ui_built' = [ui_built EXCEPT ![h] = ui_model[h]]
                       /\ transcriber' = ui_built'[h]
                       /\ ui_pc' = [ui_pc EXCEPT ![h] = "transcribe"]
                       /\ UNCHANGED <<ui_failure, ui_result>>
                  ELSE /\ ui_failure' = [ui_failure EXCEPT ![h] = "load-failed"]
                       /\ ui_result' = [ui_result EXCEPT ![h] = handler_result("load-failed")]
                       /\ ui_pc' = [ui_pc EXCEPT ![h] = "done"]
                       /\ UNCHANGED <<transcriber, ui_built>>
    /\ UNCHANGED <<ui_model, ui_used>>
    /\ UNCHANGED uiRest

\* the audio is loaded or written, then transcriber.transcribe(...): the
\* module-level name is read when the call is made, and the text, or the
\* error text, is returned
UI_Transcribe(h) ==
    /\ ui_pc[h] = "transcribe"
    /\ \E failure \in {"none", "audio-failed", "transcribe-failed"} :
          /\ ui_failure' = [ui_failure EXCEPT ![h] = failure]
          /\ ui_result' = [ui_result EXCEPT ![h] = handler_result(failure)]
          /\ ui_used' = [ui_used EXCEPT ![h] =
                            IF failure = "audio-failed" THEN "none" ELSE transcriber]
    /\ ui_pc' = [ui_pc EXCEPT ![h] = "done"]
    /\ UNCHANGED <<transcriber, ui_model, ui_loads, ui_built>>
    /\ UNCHANGED uiRest

\* the UI shows the text; the handler is free for the next request
UI_Return(h) ==
    /\ ui_pc[h] = "done"
    /\ ui_pc' = [ui_pc EXCEPT ![h] = "idle"]
    /\ ui_used' = [ui_used EXCEPT ![h] = "none"]
    /\ ui_failure' = [ui_failure EXCEPT ![h] = "none"]
    /\ ui_result' = [ui_result EXCEPT ![h] = "none"]
    /\ ui_loads' = [ui_loads EXCEPT ![h] = <<>>]
    /\ ui_built' = [ui_built EXCEPT ![h] = "none"]
    /\ UNCHANGED <<transcriber, ui_model>>
    /\ UNCHANGED uiRest

\* ------------------------------------- temporary files of the UI (app.py)
\* the requests the UI serves side by side
Requests == 1..MaxRequests
\* the two files with a fixed name in tempfile.gettempdir():
\* recorded_audio.wav and uploaded_image.jpg
TempKinds == {"audio", "image"}
\* what a user may have recorded or photographed
Recordings == {"a", "b"}

\* os.path.join(tempfile.gettempdir(), "recorded_audio.wav") and
\* os.path.join(temp_dir, "uploaded_image.jpg"): the request has no part in
\* the name
temp_file_path(kind, r) == kind

\* transcribe_recorded_audio or generate_query_from_transcript is called
\* with a recording or a PIL image: the argument checks pass or return
TF_Request(r) ==
    /\ tf_pc[r] = "idle"
    /\ \E kind \in TempKinds, own \in Recordings, valid \in BOOLEAN :
          /\ tf_kind' = [tf_kind EXCEPT ![r] = kind]
          /\ tf_own' = [tf_own EXCEPT ![r] = own]
          /\ tf_pc' = [tf_pc EXCEPT ![r] = IF valid THEN "write" ELSE "done"]
    /\ UNCHANGED <<tf_files, tf_read>>
    /\ UNCHANGED tfRest

\* sf.write(temp_file_path, audio_array, sample_rate) or
\* image.save(image_path): the file holds what the request brought, or the
\* write raises and the handler returns its error text
TF_Write(r) ==
    /\ tf_pc[r] = "write"
    /\ \E written \in BOOLEAN :
          IF written
          THEN /\ tf_files' = [tf_files EXCEPT ![temp_file_path(tf_kind[r], r)] = tf_own[r]]
               /\ tf_pc' = [tf_pc EXCEPT ![r] = "read"]
          ELSE /\ tf_pc' = [tf_pc EXCEPT ![r] = "done"]
               /\ UNCHANGED tf_files
    /\ UNCHANGED <<tf_kind, tf_own, tf_read>>
    /\ UNCHANGED tfRest

\* transcriber.transcribe(temp_file_path, ...) or
\* query_generator.generate_query_text(transcript, image_path): the call
\* reads what the file holds now
TF_Read(r) ==
    /\ tf_pc[r] = "read"
    /\ tf_read' = [tf_read EXCEPT ![r] = tf_files[temp_file_path(tf_kind[r], r)]]
    /\ tf_pc' = [tf_pc EXCEPT ![r] = "done"]
    /\ UNCHANGED <<tf_kind, tf_own, tf_files>>
    /\ UNCHANGED tfRest

\* the UI shows the text; the files stay where they are
TF_Return(r) ==
    /\ tf_pc[r] = "done"
    /\ tf_pc' = [tf_pc EXCEPT ![r] = "idle"]
    /\ tf_own' = [tf_own EXCEPT ![r] = "none"]
    /\ tf_read' = [tf_read EXCEPT ![r] = "none"]
    /\ tf_kind' = [tf_kind EXCEPT ![r] = "audio"]
    /\ UNCHANGED tf_files
    /\ UNCHANGED tfRest

\* --------------------------------------------------------- specifications
Init ==
    /\ split_pc = "idle"
    /\ split_in = NoSplitIn
    /\ segments = <<>>
    /\ cfg_log = <<>>
    /\ gq_pc = "idle"
    /\ gq_in = NoQueryIn
    /\ content = <<>>
    /\ raw_reply = <<>>
    /\ model_error = <<>>
    /\ parsed_text = <<>>
    /\ gq_result = NoResult
    /\ gq_outcome = "none"
    /\ model_calls = 0
    /\ tr_pc = "idle"
    /\ tr_in = NoTranscribeIn
    /\ tr_calls = <<>>
    /\ tr_paths = <<>>
    /\ tr_errors = <<>>
    /\ tr_reply = NoReply
    /\ tr_outcome = "none"
    /\ tr_result = NoTranscription
    /\ tr_raised = NoExc
    /\ pl_pc = "idle"
    /\ pl_in = NoPipelineIn
    /\ pl_config = NoConfig
    /\ pl_segments = <<>>
    /\ pl_calls = <<>>
    /\ pl_texts = <<>>
    /\ pl_text = <<>>
    /\ pl_outcome = "none"
    /\ pr_pc = "idle"
    /\ pr_in = NoProcessIn
    /\ pr_calls = <<>>
    /\ pr_transcription = <<>>
    /\ pr_gen = "none"
    /\ pr_failed = "none"
    /\ pr_response = NoResponse
    /\ query_generator = "unset"
    /\ pr_events = <<>>
    /\ pr_gen_calls = <<>>
    /\ tmp_files = {}
    /\ pr_cleaned = <<>>
    /\ pr_health = NoHealth
    /\ transcriber = DefaultModel
    /\ ui_pc = [h \in Handlers |-> "idle"]
    /\ ui_model = [h \in Handlers |-> DefaultModel]
    /\ ui_used = [h \in Handlers |-> "none"]
    /\ ui_failure = [h \in Handlers |-> "none"]
    /\ ui_result = [h \in Handlers |-> "none"]
    /\ ui_loads = [h \in Handlers |-> <<>>]
    /\ ui_built = [h \in Handlers |-> "none"]
    /\ tf_pc = [r \in Requests |-> "idle"]
    /\ tf_kind = [r \in Requests |-> "audio"]
    /\ tf_own = [r \in Requests |-> "none"]
    /\ tf_files = [k \in TempKinds |-> "none"]
    /\ tf_read = [r \in Requests |-> "none"]

NextSplit == SplitCall \/ SplitReset
SpecSplit == Init /\ [][NextSplit]_vars

NextConfig == ConfigCall \/ ConfigReset
SpecConfig == Init /\ [][NextConfig]_vars

NextQuery == GQ_Call \/ GQ_ModelReplies \/ GQ_ModelRaises \/ GQ_Return
SpecQuery == Init /\ [][NextQuery]_vars

NextTranscribe ==
    \/ TR_Call
    \/ TR_FirstReturns
    \/ TR_FirstRaises
    \/ TR_RetryReturns
    \/ TR_RetryRaises
    \/ TR_Return
SpecTranscribe == Init /\ [][NextTranscribe]_vars

NextPipeline ==
    \/ PL_Call
    \/ PL_SegmentReturns
    \/ PL_SegmentRaises
    \/ PL_DirectReturns
    \/ PL_DirectRaises
    \/ PL_Return
SpecPipeline == Init /\ [][NextPipeline]_vars

NextProcess ==
    \/ API_Startup
    \/ PR_Call
    \/ PR_TranscribeReturns
    \/ PR_TranscribeRaises
    \/ PR_GenerateReturns
    \/ TE_Call
    \/ TE_TranscribeReturns
    \/ TE_TranscribeRaises
    \/ GE_Call
    \/ GE_GenerateReturns
    \/ Health
    \/ PR_CleanupRuns
    \/ TmpFileRemoved
    \/ PR_Return
SpecProcess == Init /\ [][NextProcess]_vars

\* the two entry points, transcribe_audio of app.py and /process of api.py:
\* they belong to two programs and share no variable, so one runs at a time
NextOrchestration ==
    \/ pr_pc = "idle" /\ NextPipeline
    \/ pl_pc = "idle" /\ NextProcess
SpecOrchestration == Init /\ [][NextOrchestration]_vars

NextUI ==
    \E h \in Handlers :
       \/ UI_Request(h)
       \/ UI_Check(h)
       \/ UI_Install(h)
       \/ UI_Transcribe(h)
       \/ UI_Return(h)
SpecUI == Init /\ [][NextUI]_vars

NextTempFiles ==
    \E r \in Requests :
       \/ TF_Request(r)
       \/ TF_Write(r)
       \/ TF_Read(r)
       \/ TF_Return(r)
SpecTempFiles == Init /\ [][NextTempFiles]_vars

Next ==
    \/ NextSplit
    \/ NextConfig
    \/ NextQuery
    \/ NextTranscribe
    \/ NextPipeline
    \/ NextProcess
    \/ NextUI
    \/ NextTempFiles
Spec == Init /\ [][Next]_vars

\* ------------------------------------------------------------------ claims
RECURSIVE Concat(_)
Concat(ss) == IF ss = <<>> THEN <<>> ELSE Head(ss) \o Concat(Tail(ss))

CeilDiv(l, s) == (l + s - 1) \div s

SplitWindow == split_in.segment_length_sec * split_in.sample_rate

\* C1: split_audio returns ceil(L / S) segments, all of length S except
\* possibly the last, whose concatenation in order is the input array.
C1_SplitPartition ==
    split_pc = "done" =>
        /\ Len(segments) = CeilDiv(Len(split_in.audio_array), SplitWindow)
        /\ \A i \in 1..(Len(segments) - 1) : Len(segments[i]) = SplitWindow
        /\ \A i \in 1..Len(segments) : Len(segments[i]) \in 1..SplitWindow
        /\ Concat(segments) = split_in.audio_array

\* a split with at least two full windows and a shorter, non-empty remainder
C1_Witness ==
    /\ split_pc = "done"
    /\ Len(segments) = 3
    /\ Len(segments[3]) < SplitWindow
    /\ segments[1] # segments[2]

\* C2 (as stated): every input shorter than one window, the empty one
\* included, comes back as exactly one segment equal to the input.
C2_ShortInputOneSegment ==
    (split_pc = "done" /\ Len(split_in.audio_array) < SplitWindow) =>
        segments = <<split_in.audio_array>>

\* C2 (amended): a non-empty input shorter than one window comes back as
\* exactly one segment equal to the input; the empty input gives no segment.
C2_ShortInputAmended ==
    (split_pc = "done" /\ Len(split_in.audio_array) < SplitWindow) =>
        IF Len(split_in.audio_array) > 0
        THEN segments = <<split_in.audio_array>>
        ELSE segments = <<>>

C2_Witness ==
    /\ split_pc = "done"
    /\ Len(split_in.audio_array) = 3
    /\ SplitWindow = 4
    /\ segments = <<split_in.audio_array>>

ConfigLarge == [batch_size |-> 8, compute_type |-> "int8", beam_size |-> 3]
ConfigMedium == [batch_size |-> 12, compute_type |-> "float16", beam_size |-> 4]
ConfigDefault == [batch_size |-> 16, compute_type |-> "float16", beam_size |-> 5]

\* C3: every file size maps to exactly one of three configs with half-open
\* boundaries: > 100 MB large, 50 < size <= 100 medium, <= 50 default;
\* exactly 100 MB is medium and exactly 50 MB is default.
C3_ThreeTiers ==
    \A i \in 1..Len(cfg_log) :
        LET f == cfg_log[i].file_size
            c == cfg_log[i].config
        IN  /\ f > LargeFileMB * TicksPerMB => c = ConfigLarge
            /\ (f > MediumFileMB * TicksPerMB /\ f <= LargeFileMB * TicksPerMB)
                  => c = ConfigMedium
            /\ f <= MediumFileMB * TicksPerMB => c = ConfigDefault
            /\ f = LargeFileMB * TicksPerMB => c = ConfigMedium
            /\ f = MediumFileMB * TicksPerMB => c = ConfigDefault
            /\ c \in {ConfigLarge, ConfigMedium, ConfigDefault}

\* calls at exactly 50 MB, exactly 100 MB and one tick above 100 MB
C3_Witness ==
    /\ Len(cfg_log) = 3
    /\ cfg_log[1].file_size = MediumFileMB * TicksPerMB
    /\ cfg_log[2].file_size = LargeFileMB * TicksPerMB
    /\ cfg_log[3].file_size = LargeFileMB * TicksPerMB + 1
    /\ cfg_log[3].config = ConfigLarge

\* C4: equal file sizes give equal configs whatever was called in between,
\* and as the size grows batch_size and beam_size never grow and the
\* precision never goes back from int8 to float16.
C4_DeterministicMonotonic ==
    \A i, j \in 1..Len(cfg_log) :
        LET a == cfg_log[i]
            b == cfg_log[j]
        IN  /\ a.file_size = b.file_size => a.config = b.config
            /\ a.file_size <= b.file_size =>
                  /\ a.config.batch_size >= b.config.batch_size
                  /\ a.config.beam_size >= b.config.beam_size
                  /\ a.config.compute_type = "int8" => b.config.compute_type = "int8"

\* the same size called twice with a call of another tier in between, and a
\* pair of calls in which the precision drops as the size grows
C4_Witness ==
    /\ Len(cfg_log) = 3
    /\ cfg_log[1].file_size = cfg_log[3].file_size
    /\ cfg_log[1].file_size > MediumFileMB * TicksPerMB
    /\ cfg_log[1].file_size <= LargeFileMB * TicksPerMB
    /\ cfg_log[2].file_size > LargeFileMB * TicksPerMB
    /\ cfg_log[1].config.compute_type = "float16"
    /\ cfg_log[2].config.compute_type = "int8"

\* ---- generate_query
Replied == gq_pc = "returned" /\ gq_outcome \in {"success", "parse-error"}

\* where the content after the first occurrence of open starts in r
ContentStart(r, open) == FindFrom(r, open, 1) + Len(open)
\* whether a ``` fence follows the first occurrence of open in r
HasClosingFence(r, open) == FindFrom(r, Fence, ContentStart(r, open)) # 0
\* the text of r between the first occurrence of open and the next ``` fence
\* after it (the end of r when no fence follows)
FenceContent(r, open) ==
    LET close == FindFrom(r, Fence, ContentStart(r, open))
    IN  SubSeq(r, ContentStart(r, open), IF close = 0 THEN Len(r) ELSE close - 1)

\* the fence that opens the block generate_query is to extract from r
OpeningFence(r) == IF Contains(r, FenceJson) THEN FenceJson ELSE Fence

\* C5 (as stated): with a ```json fence the text handed to the JSON parser is
\* the content between that fence and the next ``` fence, otherwise with any
\* ``` fence it is the content between the first pair of fences; and when that
\* text is valid JSON the parsed value is returned as the success payload.
C5_FenceContentParsed ==
    (Replied /\ Contains(raw_reply, Fence)
        /\ HasClosingFence(raw_reply, OpeningFence(raw_reply))) =>
        /\ parsed_text = FenceContent(raw_reply, OpeningFence(raw_reply))
        /\ json_loads(parsed_text).ok =>
              (gq_outcome = "success" /\ gq_result = json_loads(parsed_text).val)

\* the last position of the extracted content: it runs to the next ``` fence
\* after the opening fence, or to the end of r when none follows; when that
\* fence begins a run of four or five backticks that ends in "```json", the
\* one or two backticks before that "```json" belong to the content
ContentEnd(r, open) ==
    LET close == FindFrom(r, Fence, ContentStart(r, open))
        closeJson == FindFrom(r, FenceJson, ContentStart(r, open))
    IN  IF close = 0 THEN Len(r)
        ELSE IF closeJson \in {close + 1, close + 2} THEN closeJson - 1
        ELSE close - 1

\* C5 (amended): the text handed to the JSON parser is the content between
\* the opening fence and the next ``` fence with its leading and trailing
\* whitespace removed; the content runs to the end of the reply when no
\* fence follows, and keeps the one or two backticks that stand before a
\* following "```json"; when the text is valid JSON the parsed value is
\* returned as the success payload.
C5_FenceContentStripped ==
    (Replied /\ Contains(raw_reply, Fence)) =>
        LET open == OpeningFence(raw_reply)
            expected == PyStrip(SubSeq(raw_reply, ContentStart(raw_reply, open),
                                       ContentEnd(raw_reply, open)))
        IN  /\ parsed_text = expected
            /\ json_loads(expected).ok =>
                  (gq_outcome = "success" /\ gq_result = json_loads(expected).val)

\* the reply ```json\n{"items":[]}\n``` returned as {"items": []}
C5_Witness ==
    /\ Replied
    /\ raw_reply = FenceJson \o DocItemsLines \o Fence
    /\ parsed_text = SubSeq(DocItemsLines, 2, Len(DocItemsLines) - 1)
    /\ gq_outcome = "success"
    /\ gq_result = JObj(<<KeyItems>>, <<JArr(<<>>)>>)

\* the reply ```1``` returned as the number 1
C5_WitnessPlain ==
    /\ Replied
    /\ raw_reply = Fence \o <<"1">> \o Fence
    /\ gq_result = JNum(1)

\* C6: for a reply without any ``` fence the text handed to the JSON parser
\* is the reply unmodified, and on a parse failure raw_response is the first
\* 200 characters of the reply.
C6_NoFenceIdentity ==
    (Replied /\ ~Contains(raw_reply, Fence)) =>
        /\ parsed_text = raw_reply
        /\ gq_outcome = "parse-error" =>
              /\ HasKey(gq_result, KeyRawResponse)
              /\ Lookup(gq_result, KeyRawResponse) = JStr(Take(raw_reply, RawResponseLimit))

\* an unparsable reply without fences, longer than 200 characters, that
\* begins with whitespace
C6_Witness ==
    /\ Replied
    /\ ~Contains(raw_reply, Fence)
    /\ Len(raw_reply) > RawResponseLimit
    /\ raw_reply[1] = "\n"
    /\ gq_outcome = "parse-error"
    /\ Len(Lookup(gq_result, KeyRawResponse).str) = RawResponseLimit

\* a parsable reply without fences that begins and ends with whitespace
C6_WitnessParsed ==
    /\ Replied
    /\ raw_reply = DocItemsLines
    /\ parsed_text = DocItemsLines
    /\ gq_outcome = "success"

\* C7: when the extracted text is not valid JSON the result is the error
\* payload with the message "Could not parse response as JSON", the
\* transcript argument, and the first 200 characters of the reply as the
\* model gave it, before any fence stripping.
C7_ParseErrorRawReply ==
    (gq_pc = "returned" /\ gq_outcome = "parse-error") =>
        gq_result = JObj(<<KeyError, KeyTranscript, KeyRawResponse>>,
                         <<JStr(MsgParse), JStr(gq_in.transcript),
                           JStr(Take(raw_reply, RawResponseLimit))>>)

\* what the code does return on a parse failure: the message, the transcript
\* and the first 200 characters of the text after fence stripping
GQ_ParseErrorStrippedText ==
    (gq_pc = "returned" /\ gq_outcome = "parse-error") =>
        /\ ~json_loads(parsed_text).ok
        /\ gq_result = JObj(<<KeyError, KeyTranscript, KeyRawResponse>>,
                            <<JStr(MsgParse), JStr(gq_in.transcript),
                              JStr(Take(parsed_text, RawResponseLimit))>>)

\* C8: when the model invocation raises an error with message m, the call
\* returns the payload {error: "Failed to generate query: m", transcript}
\* with no raw_response and no query content.
C8_InvocationErrorPayload ==
    (gq_pc = "returned" /\ gq_outcome = "invocation-error") =>
        /\ gq_result.kind = "object"
        /\ gq_result.keys = <<KeyError, KeyTranscript>>
        /\ Lookup(gq_result, KeyTranscript) = JStr(gq_in.transcript)
        /\ Lookup(gq_result, KeyError) = JStr(MsgFailed \o model_error)
        /\ ~HasKey(gq_result, KeyRawResponse)
        /\ ~HasKey(gq_result, KeyItems)
        /\ raw_reply = <<>>

\* the model raises "API error" on the transcript "hi"
C8_Witness ==
    /\ gq_pc = "returned"
    /\ gq_outcome = "invocation-error"
    /\ gq_in.transcript # <<>>
    /\ model_error = MsgApiError
    /\ Lookup(gq_result, KeyError) = JStr(MsgFailed \o MsgApiError)

\* the success shape of QueryResult: {items: sequence, ...}
IsSuccessShape(v) ==
    /\ HasKey(v, KeyItems)
    /\ Lookup(v, KeyItems).kind = "array"
\* the error shape of QueryResult: {error: string, transcript: string, raw_response?}
IsErrorShape(v) ==
    /\ HasKey(v, KeyError)
    /\ HasKey(v, KeyTranscript)
    /\ Lookup(v, KeyError).kind = "string"
    /\ Lookup(v, KeyTranscript).kind = "string"

\* C9: every returned value has exactly one of the two QueryResult shapes,
\* the success shape on the outcome success and the error shape on the
\* outcomes parse-error and invocation-error, never both and never neither.
C9_TaggedUnion ==
    gq_pc = "returned" =>
        /\ gq_outcome \in {"success", "parse-error", "invocation-error"}
        /\ IsSuccessShape(gq_result) # IsErrorShape(gq_result)
        /\ IsSuccessShape(gq_result) <=> gq_outcome = "success"

\* what does hold: every call ends in exactly one of the three outcomes, and
\* the two failure outcomes return the error shape alone
GQ_FailureShapes ==
    gq_pc = "returned" =>
        /\ gq_outcome \in {"success", "parse-error", "invocation-error"}
        /\ gq_outcome # "success" =>
              (IsErrorShape(gq_result) /\ ~IsSuccessShape(gq_result))

\* C10: for every transcript, image argument and model behaviour the call
\* returns, and what it returns is a well-formed result object (a success
\* payload or an error payload).
C10_AlwaysWellFormed ==
    /\ gq_pc = "returned" => (IsSuccessShape(gq_result) \/ IsErrorShape(gq_result))
    /\ gq_pc = "invoking" => ENABLED (GQ_ModelReplies \/ GQ_ModelRaises)

\* what does hold: a call never stops short of returning, whatever the
\* transcript, the image and the model's behaviour
GQ_AlwaysReturns ==
    /\ gq_pc \in {"idle", "invoking", "returned"}
    /\ gq_pc = "invoking" => ENABLED (GQ_ModelReplies \/ GQ_ModelRaises)
    /\ gq_pc = "returned" => gq_outcome \in {"success", "parse-error", "invocation-error"}

\* C11: every call of generate_query invokes the model exactly once, whatever
\* the outcome: no call before the content is built, one call when the
\* function returns a query, a parse-error payload or an invocation-error
\* payload, also when the image could not be loaded.
C11_ModelInvokedOnce ==
    /\ gq_pc \in {"idle", "invoking"} => model_calls = 0
    /\ gq_pc = "returned" =>
          /\ gq_outcome \in {"success", "parse-error", "invocation-error"}
          /\ model_calls = 1

\* an unparsable reply for a request whose image could not be opened
C11_Witness ==
    /\ gq_pc = "returned"
    /\ gq_outcome = "parse-error"
    /\ gq_in.image_path = "undecodable"
    /\ model_calls = 1

\* C20: the content handed to the model has two parts, the prompt and the
\* image, when an image path was given, exists and opens; it has the prompt
\* alone otherwise; an image that does not open does not stop the call, which
\* goes on to the model and returns.
C20_ContentParts ==
    gq_pc \in {"invoking", "returned"} =>
       LET img == gq_in.image_path
       IN  /\ Len(content) = (IF img = "ok" THEN 2 ELSE 1)
           /\ content[1] = [part |-> "text", transcript |-> gq_in.transcript]
           /\ img = "ok" => content[2].part = "image"
           /\ gq_pc = "returned" => gq_outcome # "none" /\ model_calls >= 1

\* the call returned although the image exists and does not open
C20_Witness ==
    /\ gq_pc = "returned"
    /\ gq_in.image_path = "undecodable"
    /\ Len(content) = 1
    /\ gq_outcome = "success"

\* the image was opened and sent along
C20_WitnessImage ==
    /\ gq_pc = "invoking"
    /\ gq_in.image_path = "ok"
    /\ Len(content) = 2

\* C12: transcribe leaves the language option out of the model call whenever
\* the language argument is None, the empty string, "auto-detect" or the
\* string "None"; that holds of the first call and of every later one.
C12_LanguageOmitted ==
    (tr_calls # <<>> /\ tr_in.language \in
        {PyNone, PyStr(<<>>), PyStr(AutoDetect), PyStr(NoneString)})
    => \A i \in 1..Len(tr_calls) : tr_calls[i] = NoOptions

\* the model was called for the language "auto-detect"
C12_Witness ==
    /\ tr_pc = "first"
    /\ tr_in.language = PyStr(AutoDetect)
    /\ tr_calls = <<NoOptions>>

\* the code at large: the option is passed, unchanged, for every language
\* that is non-empty, is not "auto-detect" in any case and is not "None"
TR_LanguagePassed ==
    tr_calls # <<>> =>
       LET l == tr_in.language
           omitted == l.is_none \/ l.text = <<>> \/ Lower(l.text) = AutoDetect
                         \/ l.text = NoneString
       IN  tr_calls[1] = (IF omitted THEN NoOptions ELSE LanguageOption(l.text))

\* the message of the first error of the model names the language
FirstErrorNamesLanguage ==
    tr_errors # <<>> /\ Contains(Lower(tr_errors[1].msg), KeyLanguage)

\* C13: when the first model call fails with a message that names the
\* language, transcribe makes exactly one further call, without a language
\* option, and returns the result of that call; when the second call fails
\* too, its failure leaves transcribe. No execution makes more than two model
\* calls, and a second call never carries a language option.
C13_RetryOnceWithoutLanguage ==
    /\ Len(tr_calls) <= 2
    /\ Len(tr_calls) = 2 => tr_calls[2] = NoOptions
    /\ FirstErrorNamesLanguage =>
          /\ Len(tr_calls) = 2
          /\ tr_pc \in {"retry", "done"}
          /\ tr_pc = "done" =>
                \/ /\ tr_outcome = "returned"
                   /\ Len(tr_errors) = 1
                   /\ tr_result = TranscriptionResult(tr_reply)
                \/ /\ tr_outcome = "raised"
                   /\ Len(tr_errors) = 2
                   /\ tr_raised = tr_errors[2]

\* a language was given, the model rejected it, the second call returned
C13_Witness ==
    /\ tr_pc = "done"
    /\ tr_outcome = "returned"
    /\ FirstErrorNamesLanguage
    /\ tr_calls[1].has_language
    /\ tr_calls[2] = NoOptions
    /\ tr_result.text = <<"h", "i">>

\* both calls failed and the second failure left transcribe
C13_WitnessSecondFails ==
    /\ tr_pc = "done"
    /\ tr_outcome = "raised"
    /\ Len(tr_errors) = 2

RECURSIVE JoinTexts(_)
JoinTexts(ts) ==
    IF ts = <<>> THEN <<>>
    ELSE IF Len(ts) = 1 THEN ts[1]
    ELSE ts[1] \o <<" ">> \o JoinTexts(Tail(ts))

\* transcribe_audio returned on the branch that splits the file
ReturnedFromSegments ==
    pl_pc = "done" /\ pl_outcome = "returned" /\ pl_segments # <<>>

\* C16: on the branch that splits the file, the transcript returned is the
\* texts of the segments, in the order of the segments, with exactly one
\* space between consecutive texts and nothing before the first text or
\* after the last one.
C16_JoinedBySingleSpace ==
    ReturnedFromSegments => pl_text = JoinTexts(pl_texts)

\* what the loop builds: every text, the last one too, is followed by a space
PL_SpaceAfterEveryText ==
    ReturnedFromSegments => pl_text = JoinTexts(pl_texts) \o <<" ">>

\* C18: in one run the segments are transcribed one at a time in the order
\* of their indexes: the k-th call of the model is for segment k, it is made
\* only when the texts of segments 1..k-1 have been returned and appended,
\* and the transcript built so far is those texts, in that order, each
\* followed by one space.
C18_OneAtATimeInOrder ==
    pl_segments # <<>> =>
       /\ \A k \in 1..Len(pl_calls) :
             /\ pl_calls[k].index = k
             /\ pl_calls[k].samples = pl_segments[k]
       /\ Len(pl_calls) <= Len(pl_segments)
       /\ Len(pl_texts) \in {Len(pl_calls) - 1, Len(pl_calls)}
       /\ pl_pc = "segment" => Len(pl_texts) = Len(pl_calls) - 1
       /\ pl_outcome = "returned" => Len(pl_texts) = Len(pl_segments)
       /\ pl_text = Flatten([k \in 1..Len(pl_texts) |-> pl_texts[k] \o <<" ">>])

\* the call for the third segment is under way, two texts are appended
C18_Witness ==
    /\ pl_pc = "segment"
    /\ Len(pl_segments) = 3
    /\ Len(pl_calls) = 3
    /\ pl_calls[3].samples = pl_segments[3]
    /\ pl_texts = << <<"a">>, <<" ", "b">> >>

\* transcribe_audio is on the branch that splits the file: no call of the
\* model is for the whole file
OnSegmentBranch ==
    pl_pc # "idle" /\ \A k \in 1..Len(pl_calls) : pl_calls[k].index >= 1
\* transcribe_audio transcribes the whole file in one call
OnDirectBranch ==
    pl_pc # "idle" /\ pl_calls = <<TranscribeCall(0, <<>>, pl_config)>>
\* the size of the file of the run is above 30 MB
AboveThreshold(file_size) == file_size > 30 * TicksPerMB

\* transcribe_audio: the branch is a matter of the size alone, and the
\* configuration of every call is the one selected for the size
PipelineBranchBySize ==
    pl_pc # "idle" =>
       /\ OnSegmentBranch <=> AboveThreshold(pl_in.file_size)
       /\ OnDirectBranch <=> ~AboveThreshold(pl_in.file_size)
       /\ pl_in.file_size = 120 * TicksPerMB =>
             /\ pl_config = [batch_size |-> 8, compute_type |-> "int8", beam_size |-> 3]
             /\ OnSegmentBranch
             /\ pl_segments = split_audio(pl_in.audio, PipelineSampleRate, PipelineSegmentSec)
       /\ pl_in.file_size = 30 * TicksPerMB => OnDirectBranch
       /\ \A k \in 1..Len(pl_calls) : pl_calls[k].config = pl_config

\* C15 as stated, of both entry points the claim names: the run is on the
\* branch that splits the file exactly when the file is larger than 30 MB,
\* and transcribes the whole file in one call otherwise; a file of 120 MB
\* runs with batch_size 8, int8, beam_size 3 on the splitting branch and a
\* file of exactly 30 MB is transcribed directly.
C15_SplitsAbove30MB ==
    /\ PipelineBranchBySize
    /\ pr_calls # <<>> =>
          ((\A k \in 1..Len(pr_calls) : pr_calls[k].input # "file")
              <=> AboveThreshold(pr_in.file_size))

\* C15, amended: transcribe_audio of app.py is on the splitting branch
\* exactly when the file is larger than 30 MB and transcribes the whole file
\* in one call otherwise, 120 MB running with batch_size 8, int8,
\* beam_size 3 on the splitting branch and exactly 30 MB directly; /process
\* of api.py selects no configuration and splits nothing: whatever the size
\* it hands the whole file to the transcriber in one call.
C15_SplitsAbove30MBInApp ==
    /\ PipelineBranchBySize
    /\ (pr_in.endpoint = "process" /\ pr_pc \in {"transcribing", "generating"}) =>
          pr_calls = <<ProcessTranscribeCall(pr_in.language)>>
    /\ (pr_in.endpoint = "process" /\ pr_pc = "done") =>
          pr_calls = (IF pr_failed \in {"unavailable", "no-file", "save", "load"} THEN <<>>
                      ELSE <<ProcessTranscribeCall(pr_in.language)>>)

\* a file of 120 MB on the splitting branch, its second segment under way
C15_Witness ==
    /\ pl_pc = "segment"
    /\ pl_in.file_size = 120 * TicksPerMB
    /\ pl_config.batch_size = 8
    /\ Len(pl_calls) = 2
    /\ pl_calls[2].index = 2

\* a file of exactly 30 MB, transcribed in one call
C15_WitnessThreshold ==
    /\ pl_pc = "done"
    /\ pl_in.file_size = 30 * TicksPerMB
    /\ pl_outcome = "returned"
    /\ pl_calls = <<TranscribeCall(0, <<>>, pl_config)>>

\* /process transcribes a file of 120 MB in one call
C15_WitnessProcess ==
    /\ pr_pc = "generating"
    /\ pr_in.file_size = 120 * TicksPerMB
    /\ pr_calls = <<ProcessTranscribeCall(pr_in.language)>>

\* the response tells of an error: in its error field or within its query
ResponseCarriesError ==
    ~pr_response.error.is_none \/ HasKey(pr_response.query, KeyError)

\* C17: a failure of the transcription or of the query generation ends the
\* request in a failure: the response of /process is never marked successful
\* while it carries a transcript and an error, a failed step gives a
\* response that is not marked successful, and transcribe_audio never
\* returns a transcript built from some of the segments only.
C17_FailuresAbort ==
    /\ (pr_in.endpoint = "process" /\ pr_pc = "done") =>
          /\ ~(pr_response.success /\ ~pr_response.transcription.is_none
                  /\ ResponseCarriesError)
          /\ pr_failed = "transcription" => ~pr_response.success
          /\ pr_gen \in {"parse-error", "invocation-error"} => ~pr_response.success
    /\ pl_outcome = "returned" /\ pl_segments # <<>> =>
          Len(pl_texts) = Len(pl_segments)

\* what holds of the failures that raise: a transcriber that raises gives a
\* 500 that is not marked successful and holds no transcript, and a segment
\* that raises leaves transcribe_audio without a result
PR_RaisedFailuresAbort ==
    /\ (pr_pc = "done" /\ pr_failed # "none") =>
          /\ ~pr_response.success
          /\ pr_response.transcription.is_none
          /\ pr_response.query = JLit("null")
          /\ pr_response.code \in {StatusBadRequest, StatusInternalError}
    /\ pl_outcome = "returned" /\ pl_segments # <<>> =>
          Len(pl_texts) = Len(pl_segments)
    /\ (pl_pc = "done" /\ Len(pl_texts) < Len(pl_segments)) => pl_outcome = "raised"

\* C19: the requests share no state that changes: in every interleaving of
\* UI requests that name different models, the audio of a request is
\* transcribed by the model the request named, never by one that another
\* request put into the module-level transcriber.
C19_OwnModel ==
    \A h \in Handlers :
       (ui_pc[h] = "done" /\ ui_used[h] # "none") => ui_used[h] = ui_model[h]

\* what holds: the transcriber that serves a request is one that the
\* start-up or some request installed
UI_UsedModelWasInstalled ==
    \A h \in Handlers : ui_used[h] \in AVAILABLE_MODELS \cup {"none"}

\* the language argument is a non-empty string other than the strings
\* "auto-detect" and "None"
LanguageGiven ==
    /\ Truthy(tr_in.language)
    /\ tr_in.language.text # AutoDetect
    /\ tr_in.language.text # NoneString
\* the same, with "auto-detect" in any letter case left out as well
LanguageGivenAnyCase ==
    LanguageGiven /\ Lower(tr_in.language.text) # AutoDetect
\* the result object holds the text, the language and the duration of the
\* dictionary the model returned, the duration being 0 when it has none
ResultCarriesReply ==
    /\ tr_result.text = tr_reply.text
    /\ tr_result.language = tr_reply.language
    /\ tr_result.duration =
          (IF tr_reply.duration.present THEN tr_reply.duration.value ELSE 0)

\* C21 as stated: for a non-empty language other than "auto-detect" and
\* "None", a transcribe call that succeeds has called the model exactly
\* once, with the audio path and with that language, unchanged, as the
\* language option, and its result carries the text, the language and the
\* duration of the model.
C21_LanguagePassedOnce ==
    (LanguageGiven /\ tr_outcome = "returned") =>
       /\ tr_calls = <<LanguageOption(tr_in.language.text)>>
       /\ tr_paths = <<tr_in.audio.file_path.text>>
       /\ ResultCarriesReply

\* C21, amended: for a non-empty language that is not "auto-detect" in any
\* letter case and is not "None", the first call of the model carries the
\* audio path and that language, unchanged, as the language option; a call
\* of transcribe that succeeds has called the model once, or twice when the
\* first call failed with a message that names the language, the second
\* call being without a language; the result carries the text, the language
\* and the duration of the call that returned.
C21_LanguagePassedFirst ==
    (LanguageGivenAnyCase /\ tr_calls # <<>>) =>
       /\ tr_calls[1] = LanguageOption(tr_in.language.text)
       /\ tr_paths[1] = tr_in.audio.file_path.text
       /\ tr_outcome = "returned" =>
             /\ Len(tr_calls) = 1 + Len(tr_errors)
             /\ Len(tr_errors) <= 1
             /\ Len(tr_paths) = Len(tr_calls)
             /\ \A k \in 2..Len(tr_calls) :
                   tr_calls[k] = NoOptions /\ tr_paths[k] = tr_paths[1]
             /\ ResultCarriesReply

\* transcribe("/tmp/test.wav", language="es") returned after one call
C21_Witness ==
    /\ tr_outcome = "returned"
    /\ tr_in.language = PyStr(<<"e", "s">>)
    /\ tr_calls = <<LanguageOption(<<"e", "s">>)>>
    /\ tr_paths = <<PathOfString>>
    /\ tr_result.duration = 2

\* C28: transcribe of an AudioData hands the file_path of the object to the
\* model in every call; for an AudioData without a file_path it fails with
\* ValueError and no call of the model is made.
C28_AudioDataFilePath ==
    (tr_pc # "idle" /\ tr_in.audio.kind = "AudioData") =>
       IF Truthy(tr_in.audio.file_path)
       THEN /\ tr_paths # <<>>
            /\ \A k \in 1..Len(tr_paths) : tr_paths[k] = tr_in.audio.file_path.text
            /\ Len(tr_paths) = Len(tr_calls)
       ELSE /\ tr_pc = "done"
            /\ tr_outcome = "raised"
            /\ tr_raised = Exc("ValueError", MsgNoPath)
            /\ tr_calls = <<>>
            /\ tr_paths = <<>>
            /\ tr_errors = <<>>

\* an AudioData whose file_path is None was refused
C28_Witness ==
    /\ tr_pc = "done"
    /\ tr_in.audio = AudioData(PyNone)
    /\ tr_raised.type = "ValueError"
    /\ tr_calls = <<>>

\* an AudioData with a file_path was transcribed from that path
C28_WitnessPath ==
    /\ tr_outcome = "returned"
    /\ tr_in.audio = AudioData(PyStr(PathOfAudioData))
    /\ tr_paths = <<PathOfAudioData>>

\* C22: constructing a WhisperTranscriber with a name outside the list of
\* available models fails before any model is loaded; with a listed name the
\* model is loaded once, under that name, and when the load returned the
\* transcriber built records that name.
C22_ConstructorChecksName ==
    \A h \in Handlers :
       /\ ui_loads[h] \in {<<>>, <<ui_model[h]>>}
       /\ ui_loads[h] # <<>> => ui_model[h] \in AVAILABLE_MODELS
       /\ ui_failure[h] = "rejected" =>
             ui_model[h] \notin AVAILABLE_MODELS /\ ui_loads[h] = <<>>
       /\ ui_failure[h] = "load-failed" =>
             ui_loads[h] = <<ui_model[h]>> /\ ui_built[h] = "none"
       /\ ui_built[h] # "none" =>
             ui_built[h] = ui_model[h] /\ ui_loads[h] = <<ui_built[h]>>
       /\ (ui_pc[h] \in {"transcribe", "done"} /\ ui_model[h] \notin AVAILABLE_MODELS)
             => ui_failure[h] \in {"rejected", "no-input"}

\* a request for the unknown model "huge" was refused without a load
C22_Witness ==
    /\ ui_pc["file"] = "done"
    /\ ui_model["file"] = "huge"
    /\ ui_failure["file"] = "rejected"
    /\ ui_loads["file"] = <<>>

\* a listed model was loaded once and installed under its name
C22_WitnessLoaded ==
    /\ ui_pc["file"] = "transcribe"
    /\ ui_loads["file"] = <<"tiny">>
    /\ ui_built["file"] = "tiny"
    /\ transcriber = "tiny"

\* what a step of transcribe_audio_file does to the module-level transcriber
FileHandlerFrame ==
    ui_pc'["file"] # ui_pc["file"] =>
       /\ transcriber' # transcriber =>
             /\ ui_pc["file"] = "install"
             /\ ui_pc'["file"] = "transcribe"
             /\ transcriber' = ui_model["file"]
             /\ ui_model["file"] \in AVAILABLE_MODELS
             /\ ui_loads'["file"] = <<ui_model["file"]>>
       /\ ui_failure'["file"] \in {"no-input", "rejected", "load-failed"} =>
             transcriber' = transcriber
\* what transcribe_audio_file hands back
FileHandlerResult ==
    /\ ui_result["file"] # "raised"
    /\ ui_pc["file"] = "done" => ui_result["file"] \in {"text", "error-text"}
    /\ ui_failure["file"] # "none" => ui_result["file"] = "error-text"
    /\ ui_failure["file"] = "no-input" =>
          ui_used["file"] = "none" /\ ui_loads["file"] = <<>>
    /\ ui_failure["file"] \in {"rejected", "load-failed"} => ui_used["file"] = "none"

\* C29: transcribe_audio_file never raises; for a missing file it returns an
\* error text without calling the transcriber and without touching the
\* module-level transcriber; when the model name is rejected or the model
\* fails to load it returns an error text and leaves the module-level
\* transcriber as it was; it replaces the module-level transcriber only by
\* a model of another name that was loaded.
C29_FileHandlerNeverRaises ==
    []FileHandlerResult /\ [][FileHandlerFrame]_vars

\* the load of the requested model failed: an error text, the transcriber
\* of the start-up still in place
C29_Witness ==
    /\ ui_pc["file"] = "done"
    /\ ui_failure["file"] = "load-failed"
    /\ ui_result["file"] = "error-text"
    /\ ui_pc["recorded"] = "idle"
    /\ transcriber = DefaultModel

\* the configuration of a run is the one optimize_whisper_config gives for
\* the size of its file, every call made so far carries it, and outside a
\* run there is neither a configuration nor a call
PipelineConfigOfRun ==
    /\ pl_pc = "idle" => pl_config = NoConfig /\ pl_calls = <<>>
    /\ pl_pc # "idle" =>
          /\ pl_config = optimize_whisper_config(pl_in.file_size)
          /\ \A k \in 1..Len(pl_calls) : pl_calls[k].config = pl_config
\* a step within a run keeps the file size, the configuration and the calls
\* already made
PipelineConfigFrame ==
    (pl_pc # "idle" /\ pl_pc' # "idle") =>
       /\ pl_config' = pl_config
       /\ pl_in' = pl_in
       /\ Len(pl_calls') >= Len(pl_calls)
       /\ SubSeq(pl_calls', 1, Len(pl_calls)) = pl_calls

\* C24: within one run of transcribe_audio the configuration is selected
\* once, from the file size, before the first call of the model; every call
\* of the run, for a segment or for the whole file, carries that
\* configuration, and no step of the run changes it.
C24_OneConfigPerRun ==
    []PipelineConfigOfRun /\ [][PipelineConfigFrame]_vars

\* a file between 50 and 100 MB on its second segment: two calls, both with
\* the configuration of that size
C24_Witness ==
    /\ pl_pc = "segment"
    /\ Len(pl_calls) = 2
    /\ pl_in.file_size > MediumFileMB * TicksPerMB
    /\ pl_in.file_size <= LargeFileMB * TicksPerMB
    /\ pl_calls[1].config = [batch_size |-> 12, compute_type |-> "float16", beam_size |-> 4]
    /\ pl_calls[2].config = pl_calls[1].config

\* the request is an upload to /transcribe or /process that has a file name
\* and no content, of a service that has its generator and whose temporary
\* directory can be written
EmptyUpload ==
    /\ pr_in.endpoint \in {"transcribe", "process"}
    /\ pr_in.has_filename
    /\ pr_in.file_size = 0
    /\ query_generator = "generator"
    /\ pr_failed # "save"

\* C23: a /transcribe or /process request whose uploaded audio file has no
\* content is answered with status 400 and a body with success false and an
\* error message, and no transcription is made for it.
C23_EmptyContentRejected ==
    (pr_pc = "done" /\ EmptyUpload) =>
       /\ pr_response.code = StatusBadRequest
       /\ ~pr_response.success
       /\ ~pr_response.error.is_none
       /\ pr_response.transcription.is_none
       /\ pr_calls = <<>>

\* position of the first event with the given step in the events of the
\* request, 0 when there is none
EventAt(op) ==
    IF \E i \in 1..Len(pr_events) : pr_events[i].op = op
    THEN CHOOSE i \in 1..Len(pr_events) :
            pr_events[i].op = op /\ \A j \in 1..(i - 1) : pr_events[j].op # op
    ELSE 0

\* /process: the one call of the generator is made after the one call of the
\* transcriber has returned, with the text it returned, and a successful
\* response carries that text and a result of the generator for it
ProcessInSequence ==
    pr_in.endpoint = "process" =>
       /\ pr_pc \in {"idle", "transcribing"} => pr_gen_calls = <<>>
       /\ pr_pc = "generating" => pr_response = NoResponse
       /\ pr_gen_calls # <<>> =>
             /\ pr_calls = <<ProcessTranscribeCall(pr_in.language)>>
             /\ pr_gen_calls = <<generate_query_call(pr_transcription,
                                    IF pr_in.has_image THEN TmpImagePath ELSE PyNone)>>
             /\ 0 < EventAt("transcribe")
             /\ EventAt("transcribe") < EventAt("generate_query")
       /\ pr_response.success =>
             /\ pr_gen_calls # <<>>
             /\ pr_response.transcription = PyStr(pr_gen_calls[1].transcript)
             /\ \E r \in generate_query_results(pr_gen_calls[1].transcript) :
                   r.gen = pr_gen /\ pr_response.query = r.query
\* the generator is called in the step in which the transcriber returns, and
\* the response is made in the step in which the generator returns
ProcessStepOrder ==
    pr_in'.endpoint = "process" =>
       /\ pr_gen_calls' # pr_gen_calls =>
             /\ pr_pc = "transcribing" /\ pr_pc' = "generating"
             /\ pr_gen_calls'[1].transcript = pr_transcription'
       /\ (pr_response'.success /\ ~pr_response.success) =>
             /\ pr_pc = "generating" /\ pr_pc' = "done"
             /\ pr_transcription' = pr_transcription

\* C25: in /process the generator is called only after the transcriber has
\* returned, it receives the text of the transcription, and a successful
\* response carries that text as transcription and the result of the
\* generator as query.
C25_ProcessSequential ==
    []ProcessInSequence /\ [][ProcessStepOrder]_vars

\* /process answered for an upload with an image: the transcript "hi" went
\* to the generator with the path of the image and came back in the response
C25_Witness ==
    /\ pr_pc = "done"
    /\ pr_in.endpoint = "process"
    /\ pr_in.has_image
    /\ pr_response.success
    /\ pr_gen = "success"
    /\ pr_gen_calls = <<generate_query_call(<<"h", "i">>, TmpImagePath)>>
    /\ pr_response.transcription = PyStr(<<"h", "i">>)

\* C26: when the service started without a query generator, every request
\* to /generate-query and to /process is answered 503 with success false,
\* nothing is saved and nothing is transcribed for it; /transcribe is never
\* answered 503 and answers as it does with a generator, and /health
\* reports query_generation_available as true exactly when there is a
\* generator.
C26_NoGeneratorMeans503 ==
    /\ (query_generator = "none" /\ pr_in.endpoint \in {"generate-query", "process"}) =>
          /\ pr_pc = "done"
          /\ pr_response = ErrorResponse(StatusUnavailable, MsgUnavailable)
          /\ pr_events = <<>>
          /\ tmp_files = {}
          /\ pr_calls = <<>>
          /\ pr_gen_calls = <<>>
    /\ (query_generator = "generator" /\ pr_pc = "done") =>
          pr_response.code # StatusUnavailable
    /\ pr_in.endpoint = "transcribe" =>
          /\ pr_response.code \in {0, StatusOk, StatusBadRequest, StatusInternalError}
          /\ (pr_pc = "done" /\ pr_failed = "none") =>
                pr_response = transcribe_success_response(pr_transcription)
    /\ pr_in.endpoint = "health" =>
          /\ pr_health.status = "healthy"
          /\ pr_health.query_generation_available <=> (query_generator = "generator")

\* /process asked of a service without a generator: 503, nothing saved
C26_Witness ==
    /\ query_generator = "none"
    /\ pr_in.endpoint = "process"
    /\ pr_in.has_filename
    /\ pr_in.file_size > 0
    /\ pr_pc = "done"
    /\ pr_response.code = StatusUnavailable

\* /transcribe answers with a transcription though there is no generator
C26_WitnessTranscribe ==
    /\ query_generator = "none"
    /\ pr_in.endpoint = "transcribe"
    /\ pr_pc = "done"
    /\ pr_response = transcribe_success_response(<<"h", "i">>)

\* /health of a service without a generator
C26_WitnessHealth ==
    /\ query_generator = "none"
    /\ pr_in.endpoint = "health"
    /\ ~pr_health.query_generation_available

\* the steps of an endpoint that work on what was uploaded
WorkSteps == {"load_audio", "transcribe", "generate_query"}

\* C30: in /transcribe, /generate-query and /process every save of an upload
\* to a temporary file is followed at once by the registration of a cleanup
\* task for that file, and every registration follows the save of its file;
\* no load, transcription or generation comes before a save or between a
\* save and its registration; a cleanup task that runs removes its file or,
\* when the file is gone, prints a message, and never raises.
C30_CleanupRegistered ==
    /\ \A i \in 1..Len(pr_events) :
          /\ pr_events[i].op = "save" =>
                /\ i < Len(pr_events)
                /\ pr_events[i + 1] = Event("add_task", pr_events[i].file)
          /\ pr_events[i].op = "add_task" =>
                /\ i > 1
                /\ pr_events[i - 1] = Event("save", pr_events[i].file)
          /\ pr_events[i].op \in WorkSteps =>
                \A j \in i..Len(pr_events) : pr_events[j].op \in WorkSteps
    /\ Len(pr_cleaned) <= Len(registered_tasks(pr_events))
    /\ \A k \in 1..Len(pr_cleaned) :
          /\ pr_cleaned[k].file = registered_tasks(pr_events)[k]
          /\ pr_cleaned[k].outcome \in {"removed", "printed"}
          /\ pr_cleaned[k].file \notin tmp_files

\* /process with an image, the transcriber failed: both files were saved and
\* registered; the file of the audio was gone when its cleanup ran, the file
\* of the image was removed by its cleanup
C30_Witness ==
    /\ pr_in.endpoint = "process"
    /\ pr_failed = "transcription"
    /\ registered_tasks(pr_events) = <<TmpAudio, TmpImage>>
    /\ pr_cleaned = <<[file |-> TmpAudio, outcome |-> "printed"],
                      [file |-> TmpImage, outcome |-> "removed"]>>

\* /generate-query saved and registered the image before the generator call
C30_WitnessImage ==
    /\ pr_in.endpoint = "generate-query"
    /\ pr_pc = "generating"
    /\ pr_events = <<Event("save", TmpImage), Event("add_task", TmpImage),
                     Event("generate_query", "none")>>

\* C27: whatever the interleaving of the requests, the call of the
\* transcriber (or of the generator) of a request reads from the temporary
\* file what that same request wrote there.
C27_OwnAudio ==
    \A r \in Requests : tf_read[r] # "none" => tf_read[r] = tf_own[r]
====
